---- MODULE Spec2Model ----
(***************************************************************************)
(* Model of accessto's accessibility engine                                *)
(* (src/src/accessto/access_opportunities.py).                             *)
(*                                                                         *)
(* The functions of the module are pure: the state is the tall cost table  *)
(* handed to them (df), the last call made on it (call), how that call     *)
(* ended (status), what it returned (ret), the warnings the caller has     *)
(* observed (diagnostics) and which weight vectors the call re-indexed     *)
(* (reindexed).  Every action is one call of one public function.          *)
(*                                                                         *)
(* The Matrix class of src/accessto/matrix.py is modelled by the Matrix    *)
(* object that the caller holds: the table it stores (matrix) and its name *)
(* (name), and the CSV file that to_csv writes and read_csv reads (file).   *)
(*                                                                         *)
(* Floating point values are modelled as exact non-negative rationals      *)
(* n/d, plus the two IEEE specials that the code meets: NaN and +inf.      *)
(* exp() is modelled by a table rounded to four decimals.                  *)
(***************************************************************************)
EXTENDS Integers, Sequences, FiniteSets

VARIABLES df, call, status, ret, diagnostics, reindexed, matrix, name, file

\* The OTP2TravelTimeComputer object (its fields keep their names), the
\* files, processes and requests around it (graph_obj, processes, sent), and
\* the method it is executing (method), where in it (pc), the method's
\* arguments and local variables (locals) and how it ended (result).
VARIABLES _java_path, _otp_jar_path, _request_host_url, _request_api,
          _max_server_sleep_time, graph_obj, processes, sent,
          method, pc, locals, result

\* The variables of the accessibility functions and of Matrix.
measures ==
    <<df, call, status, ret, diagnostics, reindexed, matrix, name, file>>

\* The variables of OTP2TravelTimeComputer and its surroundings.
otp2 ==
    <<_java_path, _otp_jar_path, _request_host_url, _request_api,
      _max_server_sleep_time, graph_obj, processes, sent,
      method, pc, locals, result>>

vars ==
    <<measures, otp2>>

-----------------------------------------------------------------------------
(* Bounds of the model.                                                    *)

\* Finite travel costs are 5 * i for i in 0..MaxCostLevel.
MaxCostLevel == 2
\* Largest n tried for nth_closest_opportunity.
MaxN == 3


-----------------------------------------------------------------------------
(* Numbers: float64 values as exact rationals, NaN and +inf.               *)

RECURSIVE GCD(_, _)
GCD(a, b) == IF b = 0 THEN a ELSE GCD(b, a % b)

NaN == [k |-> "nan", n |-> 0, d |-> 1]
Inf == [k |-> "inf", n |-> 0, d |-> 1]
Frac(n, d) == LET g == GCD(n, d) IN [k |-> "fin", n |-> n \div g, d |-> d \div g]
Fin(n) == [k |-> "fin", n |-> n, d |-> 1]
Zero == Fin(0)
One == Fin(1)

IsNaN(x) == x.k = "nan"
\* numpy.isfinite
IsFinite(x) == x.k = "fin"

\* a <= b of IEEE 754: false as soon as one side is NaN
Leq(a, b) ==
    IF IsNaN(a) \/ IsNaN(b) THEN FALSE
    ELSE IF b.k = "inf" THEN TRUE
    ELSE IF a.k = "inf" THEN FALSE
    ELSE a.n * b.d <= b.n * a.d

Lt(a, b) == Leq(a, b) /\ ~Leq(b, a)

Add(a, b) ==
    IF IsNaN(a) \/ IsNaN(b) THEN NaN
    ELSE IF a.k = "inf" \/ b.k = "inf" THEN Inf
    ELSE LET g == GCD(a.d, b.d)
         IN Frac(a.n * (b.d \div g) + b.n * (a.d \div g), (a.d \div g) * b.d)

Mul(a, b) ==
    IF IsNaN(a) \/ IsNaN(b) THEN NaN
    ELSE IF a.k = "inf" THEN (IF b.k = "fin" /\ b.n = 0 THEN NaN ELSE Inf)
    ELSE IF b.k = "inf" THEN (IF a.n = 0 THEN NaN ELSE Inf)
    ELSE LET g1 == GCD(a.n, b.d)
             g2 == GCD(b.n, a.d)
         IN Frac((a.n \div g1) * (b.n \div g2), (a.d \div g2) * (b.d \div g1))

\* a / b of IEEE 754 on non-negative operands: x/0 is inf, 0/0 is NaN
Div(a, b) ==
    IF IsNaN(a) \/ IsNaN(b) THEN NaN
    ELSE IF b.k = "inf" THEN (IF a.k = "inf" THEN NaN ELSE Zero)
    ELSE IF a.k = "inf" THEN Inf
    ELSE IF b.n = 0 THEN (IF a.n = 0 THEN NaN ELSE Inf)
    ELSE LET g1 == GCD(a.n, b.n)
             g2 == GCD(a.d, b.d)
         IN Frac((a.n \div g1) * (b.d \div g2), (a.d \div g2) * (b.n \div g1))

-----------------------------------------------------------------------------
(* Sequences of ids and of numbers.                                        *)

Range(s) == {s[i] : i \in DOMAIN s}

RECURSIVE SortedIds(_)
\* The ids of S in ascending order, as pandas' unstack orders an axis.
SortedIds(S) ==
    IF S = {} THEN <<>>
    ELSE LET m == CHOOSE x \in S : \A y \in S : x <= y
         IN <<m>> \o SortedIds(S \ {m})

\* Position of key in the id sequence idx, 0 when it is not there.
Pos(idx, key) ==
    IF key \in Range(idx) THEN CHOOSE i \in DOMAIN idx : idx[i] = key ELSE 0

-----------------------------------------------------------------------------
(* The inputs the calls are tried on.                                      *)

Origins == {1, 2}
Destinations == {20, 21}
Pairs == Origins \X Destinations

\* An origin-destination pair with no row in the tall table.
Absent == [k |-> "absent", n |-> 0, d |-> 1]

FiniteCosts == {Fin(5 * i) : i \in 0..MaxCostLevel}
\* A finite cost above the 10000.0 that closest_opportunity starts from.
BigCost == 20000

Row(o, d, c) == [from_id |-> o, to_id |-> d, travel_time |-> c]

\* The tall tables with at most one row per pair and travel times in Vals.
TablesOver(Vals) ==
    {{Row(p[1], p[2], f[p]) : p \in {q \in Pairs : f[q] # Absent}} :
        f \in [Pairs -> Vals \cup {Absent}]} \ {{}}

\* cost_matrix_df of the tests
ReferenceTable ==
    {Row(1, 20, Fin(5)), Row(1, 21, Fin(10)), Row(1, 22, Fin(15)),
     Row(2, 20, Fin(18)), Row(2, 21, Fin(13)), Row(2, 22, Fin(8))}

\* Two rows for the pair (1, 20): the tall table holds a duplicate.
DuplicateTable ==
    {Row(1, 20, Fin(5)), Row(1, 20, Fin(10)), Row(2, 21, Fin(5))}

\* Three origins, two of them equally near to both destinations: the median
\* of the origins' accessibilities is not their mean.
SkewedTable ==
    {Row(1, 20, Fin(5)), Row(1, 21, Fin(5)), Row(2, 20, Fin(5)),
     Row(2, 21, Fin(5)), Row(3, 20, Fin(10)), Row(3, 21, Fin(10))}

PrimalTables ==
    TablesOver((FiniteCosts \ {Zero}) \cup {NaN})
        \cup {ReferenceTable, DuplicateTable, SkewedTable}

DualTables ==
    TablesOver(FiniteCosts \cup {NaN, Inf, Fin(BigCost)})
        \cup {ReferenceTable, DuplicateTable}

-----------------------------------------------------------------------------
(* Results of a call: how it ended and what it returned.                   *)

NoRet == [kind |-> "none", index |-> <<>>, columns |-> <<>>, cells |-> <<>>,
          scalar |-> NaN]
Raise(exc) == [status |-> exc, ret |-> NoRet, reindexed |-> {}]
Table(index, columns, cells) ==
    [kind |-> "table", index |-> index, columns |-> columns, cells |-> cells,
     scalar |-> NaN]
Series(index, cells) ==
    [kind |-> "series", index |-> index, columns |-> <<>>, cells |-> cells,
     scalar |-> NaN]
Scalar(x) ==
    [kind |-> "scalar", index |-> <<>>, columns |-> <<>>, cells |-> <<>>,
     scalar |-> x]
Return(r) == [status |-> "ok", ret |-> r, reindexed |-> {}]

-----------------------------------------------------------------------------
(* process_cost_matrix: tall table to wide table.                          *)

HasDuplicatePair(rows) ==
    \E r1, r2 \in rows :
        r1 # r2 /\ r1.from_id = r2.from_id /\ r1.to_id = r2.to_id

\* df.set_index(['from_id', 'to_id']).squeeze() then unstack(fill_value):
\* a one-row table squeezes to a scalar, which has no unstack; a repeated
\* (from_id, to_id) pair cannot be unstacked; otherwise the wide table has
\* the from_ids and to_ids that occur, sorted, and fill_value where a pair
\* has no row.
process_cost_matrix(rows, fill_value) ==
    IF Cardinality(rows) = 1 THEN Raise("AttributeError")
    ELSE IF HasDuplicatePair(rows) THEN Raise("ValueError")
    ELSE LET index == SortedIds({r.from_id : r \in rows})
             columns == SortedIds({r.to_id : r \in rows})
             cells == [p \in Range(index) \X Range(columns) |->
                 IF \E r \in rows : r.from_id = p[1] /\ r.to_id = p[2]
                 THEN (CHOOSE r \in rows :
                          r.from_id = p[1] /\ r.to_id = p[2]).travel_time
                 ELSE fill_value]
         IN Return(Table(index, columns, cells))

-----------------------------------------------------------------------------
(* Impedance functions.                                                    *)

\* np.exp(-q/200) rounded to four decimals; float64 underflows to 0.0
\* below exp(-745.13...), that is for q above 149027.
ExpNeg200(q) ==
    IF q > 149027 THEN Zero
    ELSE CASE q = 0 -> One
           [] q = 25 -> Frac(8825, 10000)
           [] q = 64 -> Frac(7261, 10000)
           [] q = 100 -> Frac(6065, 10000)
           [] q = 160 -> Frac(4493, 10000)
           [] q = 169 -> Frac(4296, 10000)
           [] q = 200 -> Frac(3679, 10000)
           [] q = 225 -> Frac(3247, 10000)
           [] q = 260 -> Frac(2725, 10000)
           [] q = 300 -> Frac(2231, 10000)
           [] q = 324 -> Frac(1979, 10000)
           [] q = 360 -> Frac(1653, 10000)

\* As WithinCell, with < for <=.
WithinCell_strict(c, threshold) == IF Lt(c, Fin(threshold)) THEN One ELSE Zero

\* As WithinCell, with == for <=.
WithinCell_equal(c, threshold) == IF c = Fin(threshold) THEN One ELSE Zero

\* np.where(cm <= threshold, 1, 0)
WithinCell(c, threshold) == IF Leq(c, Fin(threshold)) THEN One ELSE Zero

within_threshold(rows, threshold) ==
    LET cm == process_cost_matrix(rows, NaN)
    IN IF cm.status # "ok" THEN cm
       ELSE Return(Table(cm.ret.index, cm.ret.columns,
                [p \in DOMAIN cm.ret.cells |->
                    WithinCell(cm.ret.cells[p], threshold)]))

\* np.exp(beta * c) for beta = beta10 / 10 < 0 and an integer cost c
NegExpCell(c, beta10) ==
    IF IsNaN(c) THEN NaN
    ELSE IF c.k = "inf" THEN Zero
    ELSE ExpNeg200((0 - beta10) * 20 * c.n)

\* As negative_exp, rejecting only beta > 0.
negative_exp_zero_allowed(rows, beta10) ==
    LET cm == process_cost_matrix(rows, NaN)
    IN IF cm.status # "ok" THEN cm
       ELSE IF beta10 > 0 THEN Raise("ValueError")
       ELSE Return(Table(cm.ret.index, cm.ret.columns,
                [p \in DOMAIN cm.ret.cells |->
                    NegExpCell(cm.ret.cells[p], beta10)]))

negative_exp(rows, beta10) ==
    LET cm == process_cost_matrix(rows, NaN)
    IN IF cm.status # "ok" THEN cm
       ELSE IF beta10 >= 0 THEN Raise("ValueError")
       ELSE Return(Table(cm.ret.index, cm.ret.columns,
                [p \in DOMAIN cm.ret.cells |->
                    NegExpCell(cm.ret.cells[p], beta10)]))

\* np.exp(-(c * c) / (2 * sigma * sigma)) for an integer cost c; the
\* exponent is below -750, where float64 underflows, when c*c > 1500*sigma^2
GaussianCell(c, sigma) ==
    IF IsNaN(c) THEN NaN
    ELSE IF c.k = "inf" THEN Zero
    ELSE IF c.n * c.n > 1500 * sigma * sigma THEN Zero
    ELSE ExpNeg200((100 * c.n * c.n) \div (sigma * sigma))

gaussian(rows, sigma) ==
    LET cm == process_cost_matrix(rows, NaN)
    IN IF cm.status # "ok" THEN cm
       ELSE IF sigma <= 0 THEN Raise("ValueError")
       ELSE Return(Table(cm.ret.index, cm.ret.columns,
                [p \in DOMAIN cm.ret.cells |->
                    GaussianCell(cm.ret.cells[p], sigma)]))

\* impedance_function(df, **kwargs)
calc_impedance_matrix(rows, impedance_function, param) ==
    CASE impedance_function = "within_threshold" -> within_threshold(rows, param)
      [] impedance_function = "negative_exp" -> negative_exp(rows, param)
      [] impedance_function = "gaussian" -> gaussian(rows, param)

-----------------------------------------------------------------------------
(* Rows, columns and reductions of a wide table.                           *)

\* The cells of origin o, in column order.
RowOf(m, o) == [j \in DOMAIN m.columns |-> m.cells[<<o, m.columns[j]>>]]
\* The cells of destination d, in index order.
ColumnOf(m, d) == [i \in DOMAIN m.index |-> m.cells[<<m.index[i], d>>]]

RECURSIVE SumSkipNa(_)
\* pandas' sum with skipna=True: NaN entries are left out (an empty sum is 0)
SumSkipNa(s) ==
    IF s = <<>> THEN Zero
    ELSE IF IsNaN(Head(s)) THEN SumSkipNa(Tail(s))
    ELSE Add(Head(s), SumSkipNa(Tail(s)))

\* As Dot, with the weights left out of the products.
Dot_unweighted(w, v) == SumSkipNa(v)

RECURSIVE Dot(_, _)
\* np.dot of two vectors of one length: NaN propagates
Dot(w, v) ==
    IF w = <<>> THEN Zero
    ELSE Add(Mul(Head(w), Head(v)), Dot(Tail(w), Tail(v)))

\* As SortsBefore, with NaN ordered before every number.
SortsBefore_nan_first(a, b) == IsNaN(a) \/ (~IsNaN(b) /\ Leq(a, b))

\* np.sort's order: finite values ascending, then inf, then NaN
SortsBefore(a, b) == IsNaN(b) \/ (~IsNaN(a) /\ Leq(a, b))

RemoveAt(s, i) == [j \in 1..(Len(s) - 1) |-> IF j < i THEN s[j] ELSE s[j + 1]]

RECURSIVE SortNums(_)
SortNums(s) ==
    IF s = <<>> THEN <<>>
    ELSE LET i == CHOOSE i \in DOMAIN s : \A j \in DOMAIN s : SortsBefore(s[i], s[j])
         IN <<s[i]>> \o SortNums(RemoveAt(s, i))

DropNa(s) == SelectSeq(s, LAMBDA x : ~IsNaN(x))

\* As Median, taking the upper of the two middle values of an even number
\* of values instead of their mean.
Median_upper(s) ==
    LET v == SortNums(DropNa(s))
    IN IF Len(v) = 0 THEN NaN ELSE v[Len(v) \div 2 + 1]

\* Series.median(): of the non-NaN values, NaN when there is none
Median(s) ==
    LET v == SortNums(DropNa(s))
        len == Len(v)
    IN IF len = 0 THEN NaN
       ELSE IF len % 2 = 1 THEN v[(len + 1) \div 2]
       ELSE Div(Add(v[len \div 2], v[len \div 2 + 1]), Fin(2))

\* Series.mean(): of the non-NaN values, NaN when there is none
Mean(s) ==
    LET v == DropNa(s)
    IN IF Len(v) = 0 THEN NaN ELSE Div(SumSkipNa(v), Fin(Len(v)))

RECURSIVE MaxOf_min(_)
\* As MaxOf, with np.min for np.max.
MaxOf_min(s) ==
    IF Len(s) = 1 THEN s[1]
    ELSE LET m == MaxOf_min(Tail(s)) IN IF Leq(Head(s), m) THEN Head(s) ELSE m

RECURSIVE MaxOf(_)
\* np.max of a non-empty vector without NaN
MaxOf(s) ==
    IF Len(s) = 1 THEN s[1]
    ELSE LET m == MaxOf(Tail(s)) IN IF Leq(m, Head(s)) THEN Head(s) ELSE m

RECURSIVE MinFinite(_, _)
\* np.min(..., initial=initial, where=np.isfinite(...)) over one vector
MinFinite(s, initial) ==
    IF s = <<>> THEN initial
    ELSE LET m == MinFinite(Tail(s), initial)
         IN IF IsFinite(Head(s)) /\ Lt(Head(s), m) THEN Head(s) ELSE m

-----------------------------------------------------------------------------
(* Weight vectors: a pandas Series, its index and its values in order.     *)

NoWeights == [some |-> FALSE, idx |-> <<>>, val |-> <<>>]
Weights(idx, val) == [some |-> TRUE, idx |-> idx, val |-> val]

\* As Reindex, taking the weights by position instead of by key.
Reindex_by_position(w, axis, fill_value) ==
    Weights(axis, [i \in DOMAIN axis |->
        IF i \in DOMAIN w.val THEN w.val[i] ELSE fill_value])

\* Series.reindex(axis, fill_value): the weight of each key of the axis,
\* fill_value for a key the vector does not have
Reindex(w, axis, fill_value) ==
    Weights(axis, [i \in DOMAIN axis |->
        IF axis[i] \in Range(w.idx) THEN w.val[Pos(w.idx, axis[i])]
        ELSE fill_value])

\* As NormalizeOptions, with the "max" that the normalization chain tests.
NormalizeOptions_with_max == {"median", "average", "maximum", "none", "max"}

NormalizeOptions == {"median", "average", "maximum", "none"}

\* Series.max(): of the non-NaN values, NaN when there is none
MaxSkipNa(s) ==
    LET v == DropNa(s) IN IF Len(v) = 0 THEN NaN ELSE MaxOf(v)

DivideAll(s, by) == LET divisor == by IN [i \in DOMAIN s |-> Div(s[i], divisor)]

\* The if/elif chain that ends calc_access_to_opportunities when no
\* origin_weights are given.
ApplyNormalization(normalize, destination_access) ==
    IF normalize = "median"
    THEN DivideAll(destination_access, Median(destination_access))
    ELSE IF normalize = "average"
    THEN DivideAll(destination_access, Mean(destination_access))
    ELSE IF normalize = "max"
    THEN DivideAll(destination_access, MaxSkipNa(destination_access))
    ELSE destination_access

\* Index.equals(): same ids in the same order
IndexEquals(a, b) == a = b

calc_access_to_opportunities(rows, impedance_function, param, destination_weights, origin_weights, normalize) ==
    IF normalize \notin NormalizeOptions THEN Raise("ValueError")
    ELSE
    LET im == calc_impedance_matrix(rows, impedance_function, param)
    IN IF im.status # "ok" THEN im
       ELSE
       LET m == im.ret
           dre == destination_weights.some
                    /\ ~IndexEquals(destination_weights.idx, m.columns)
           dw == IF dre THEN Reindex(destination_weights, m.columns, Zero)
                 ELSE destination_weights
           destination_access == [i \in DOMAIN m.index |->
               IF ~destination_weights.some THEN SumSkipNa(RowOf(m, m.index[i]))
               ELSE Dot(dw.val, RowOf(m, m.index[i]))]
           ore == origin_weights.some
                    /\ ~IndexEquals(origin_weights.idx, m.index)
           ow == IF ore THEN Reindex(origin_weights, m.index, Zero)
                 ELSE origin_weights
           re == (IF dre THEN {"destination"} ELSE {})
                    \cup (IF ore THEN {"origin"} ELSE {})
       IN IF origin_weights.some
          THEN [status |-> "ok",
                ret |-> Scalar(Dot(destination_access, ow.val)),
                reindexed |-> re]
          ELSE LET out == ApplyNormalization(normalize, destination_access)
               IN [status |-> "ok",
                   ret |-> Series(m.index,
                       [o \in Range(m.index) |-> out[Pos(m.index, o)]]),
                   reindexed |-> re]

-----------------------------------------------------------------------------
(* Dual access measures.                                                   *)

\* As has_opportunity, reducing along the rows whatever reverse_direction is.
has_opportunity_rows_only(rows, threshold, reverse_direction) ==
    LET t == calc_impedance_matrix(rows, "within_threshold", threshold)
    IN IF t.status # "ok" THEN t
       ELSE Return(Series(t.ret.index,
                [o \in Range(t.ret.index) |-> MaxOf(RowOf(t.ret, o))]))

has_opportunity(rows, threshold, reverse_direction) ==
    LET t == calc_impedance_matrix(rows, "within_threshold", threshold)
    IN IF t.status # "ok" THEN t
       ELSE IF ~reverse_direction
       THEN Return(Series(t.ret.index,
                [o \in Range(t.ret.index) |-> MaxOf(RowOf(t.ret, o))]))
       ELSE Return(Series(t.ret.columns,
                [d \in Range(t.ret.columns) |-> MaxOf(ColumnOf(t.ret, d))]))

\* initial=10000.0 of the np.min calls
InitialMin == 10000

\* As closest_opportunity, reducing along the rows whatever
\* reverse_direction is.
closest_opportunity_rows_only(rows, reverse_direction) ==
    LET cm == process_cost_matrix(rows, NaN)
    IN IF cm.status # "ok" THEN cm
       ELSE Return(Series(cm.ret.index,
                [o \in Range(cm.ret.index) |->
                    MinFinite(RowOf(cm.ret, o), Fin(InitialMin))]))

closest_opportunity(rows, reverse_direction) ==
    LET cm == process_cost_matrix(rows, NaN)
    IN IF cm.status # "ok" THEN cm
       ELSE IF ~reverse_direction
       THEN Return(Series(cm.ret.index,
                [o \in Range(cm.ret.index) |->
                    MinFinite(RowOf(cm.ret, o), Fin(InitialMin))]))
       ELSE Return(Series(cm.ret.columns,
                [d \in Range(cm.ret.columns) |->
                    MinFinite(ColumnOf(cm.ret, d), Fin(InitialMin))]))

\* The argument n: a Python int, or a float of integral value (2.0).
IntN(v) == [type |-> "int", val |-> v]
FloatN(v) == [type |-> "float", val |-> v]

\* As nth_closest_opportunity, processing the cost table before testing n.
nth_closest_opportunity_reads_first(rows, nn, reverse_direction) ==
    LET cm == process_cost_matrix(rows, NaN)
        axis == IF reverse_direction THEN cm.ret.columns ELSE cm.ret.index
        along == IF reverse_direction THEN cm.ret.index ELSE cm.ret.columns
    IN IF cm.status # "ok" THEN cm
       ELSE IF nn.type # "int" THEN Raise("AttributeError")
       ELSE IF ~(nn.val >= 2) THEN Raise("ValueError")
       ELSE IF nn.val > Len(along) THEN Raise("IndexError")
       ELSE Return(Series(axis,
                [key \in Range(axis) |->
                    SortNums(IF reverse_direction THEN ColumnOf(cm.ret, key)
                             ELSE RowOf(cm.ret, key))[nn.val]]))

\* Position n-1 of a sorted vector shorter than n is an IndexError.
nth_closest_opportunity(rows, nn, reverse_direction) ==
    IF nn.type # "int" THEN Raise("AttributeError")
    ELSE IF ~(nn.val >= 2) THEN Raise("ValueError")
    ELSE
    LET n == nn.val
        cm == process_cost_matrix(rows, NaN)
    IN IF cm.status # "ok" THEN cm
       ELSE IF ~reverse_direction
       THEN IF n > Len(cm.ret.columns) THEN Raise("IndexError")
            ELSE Return(Series(cm.ret.index,
                    [o \in Range(cm.ret.index) |->
                        SortNums(RowOf(cm.ret, o))[n]]))
       ELSE IF n > Len(cm.ret.index) THEN Raise("IndexError")
            ELSE Return(Series(cm.ret.columns,
                    [d \in Range(cm.ret.columns) |->
                        SortNums(ColumnOf(cm.ret, d))[n]]))

-----------------------------------------------------------------------------
(* The Matrix class (src/accessto/matrix.py).                              *)

\* A pandas DataFrame in wide format: the origin ids of its index, the
\* destination ids of its columns, its cells by position (row, column), and
\* whether index and columns have an integer dtype.  NoFrame is None.
Frame(index, columns, cells, index_int, columns_int) ==
    [some |-> TRUE, index |-> index, columns |-> columns, cells |-> cells,
     index_int |-> index_int, columns_int |-> columns_int]
NoFrame ==
    [some |-> FALSE, index |-> <<>>, columns |-> <<>>, cells |-> <<>>,
     index_int |-> FALSE, columns_int |-> FALSE]

\* A cell that is no number (a string): its column has dtype object.
Text == [k |-> "str", n |-> 0, d |-> 1]

\* A name: a str, or a value that is no str.
Str(v) == [is_str |-> TRUE, val |-> v]
NotStr == [is_str |-> FALSE, val |-> "42"]

\* df[c] for the label c at position j is one column when c occurs once in
\* the columns; it is a DataFrame, which has no integer or float dtype,
\* when c occurs more than once.
IsNumericColumn(frame, j) ==
    /\ \A j2 \in DOMAIN frame.columns :
            frame.columns[j2] = frame.columns[j] => j2 = j
    /\ \A i \in DOMAIN frame.index : frame.cells[<<i, j>>].k # "str"

\* As MinIsNegative, with a minimum that does not skip NaN: the minimum of
\* a column holding a NaN is NaN, which is not below 0.
MinIsNegative_without_skipna(frame, j) ==
    /\ \A i \in DOMAIN frame.index : frame.cells[<<i, j>>].k # "nan"
    /\ \E i \in DOMAIN frame.index :
            frame.cells[<<i, j>>].k = "fin" /\ frame.cells[<<i, j>>].n < 0

\* df[c].min() < 0: min() skips NaN, and NaN < 0 is false
MinIsNegative(frame, j) ==
    \E i \in DOMAIN frame.index :
        frame.cells[<<i, j>>].k = "fin" /\ frame.cells[<<i, j>>].n < 0

RECURSIVE TestColumns(_, _)
\* The loop over df.columns, from the column at position j on.
TestColumns(frame, j) ==
    IF j > Len(frame.columns) THEN "ok"
    ELSE IF ~IsNumericColumn(frame, j) THEN "AttributeError"
    ELSE IF MinIsNegative(frame, j) THEN "ValueError"
    ELSE TestColumns(frame, j + 1)

\* Matrix._test_matrix: "ok" when it returns, else the exception it raises.
\* Its first test, `not (isinstance, df, pd.DataFrame)`, tests a tuple and
\* never raises; None has no shape.
_test_matrix(frame) ==
    IF ~frame.some THEN "AttributeError"
    ELSE IF ~(frame.index_int /\ frame.columns_int) THEN "ValueError"
    ELSE TestColumns(frame, 1)

\* A Matrix object, and the absent `matrix` argument (None).
MatrixObject(frame, nm) == [some |-> TRUE, matrix |-> frame, name |-> nm]
NoMatrix == [some |-> FALSE, matrix |-> NoFrame, name |-> Str("matrix")]

\* The outcome of a constructor call or of an assignment: how it ended and
\* the Matrix object it made or left.
Made(frame, nm) == [status |-> "ok", matrix |-> frame, name |-> nm]
Failed(exc, self) == [status |-> exc, matrix |-> self.matrix, name |-> self.name]

\* Matrix.__init__(matrix=other, df=frame, data=..., origins=...,
\* destinations=..., name=nm); data stands for
\* pd.DataFrame(data=data, index=origins, columns=destinations), NoFrame
\* when the three are None.
Matrix__init__(other, frame, data, nm) ==
    IF other.some
    THEN IF frame.some \/ data.some THEN Failed("AttributeError", NoMatrix)
         ELSE IF ~other.matrix.some THEN Failed("AttributeError", NoMatrix)
         ELSE Made(other.matrix, nm)
    ELSE IF frame.some
    THEN IF data.some THEN Failed("AttributeError", NoMatrix)
         ELSE IF _test_matrix(frame) # "ok"
         THEN Failed(_test_matrix(frame), NoMatrix)
         ELSE Made(frame, nm)
    ELSE IF data.some
    THEN IF _test_matrix(data) # "ok"
         THEN Failed(_test_matrix(data), NoMatrix)
         ELSE Made(data, nm)
    ELSE Made(NoFrame, nm)

\* The matrix setter: self.matrix = frame
matrix_setter(self, frame) ==
    IF _test_matrix(frame) # "ok" THEN Failed(_test_matrix(frame), self)
    ELSE Made(frame, self.name)

\* The name setter: self.name = nm
name_setter(self, nm) ==
    IF nm.is_str THEN Made(self.matrix, nm) ELSE Made(self.matrix, self.name)

\* Matrix.__eq__: self._matrix.equals(other.matrix), which compares the
\* ids and the cells, a NaN being equal to a NaN at the same place, and not
\* the names; an empty Matrix has no table to call equals on.
Matrix__eq__(self, other) ==
    IF ~self.matrix.some THEN "AttributeError"
    ELSE IF self.matrix = other.matrix THEN "True"
    ELSE "False"

-----------------------------------------------------------------------------
(* CSV files of a Matrix: Matrix.to_csv and read_csv                       *)
(* (src/accessto/matrix.py).                                               *)

\* A column label of the header line: the text of an integer, or other text.
IntLabel(v) == [int |-> TRUE, text |-> "", val |-> v]
TextLabel(t) == [int |-> FALSE, text |-> t, val |-> 0]

\* An empty field, which is how a NaN is written and what is read as NaN.
Empty == [k |-> "empty", n |-> 0, d |-> 1]
Format(c) == IF IsNaN(c) THEN Empty ELSE c
Parse(f) == IF f = Empty THEN NaN ELSE f

\* A CSV file as pandas reads it with index_col=[0], header=[0]: the labels
\* of the columns after the first, and per line the id of the first column
\* and the fields after it.  NoFile: there is no file at the path.
Line(id, fields) == [id |-> id, fields |-> fields]
File(header, lines) == [exists |-> TRUE, header |-> header, lines |-> lines]
NoFile == [exists |-> FALSE, header |-> <<>>, lines |-> <<>>]

Written(f) == [status |-> "ok", file |-> f]
NotWritten(exc) == [status |-> exc, file |-> NoFile]

\* DataFrame.stack(): one entry per origin and destination, origin by
\* origin, the entries whose value is NaN dropped.
Stack(frame) ==
    LET nc == Len(frame.columns)
        all == [e \in 1..(Len(frame.index) * nc) |->
                  LET i == (e - 1) \div nc + 1
                      j == ((e - 1) % nc) + 1
                  IN Line(frame.index[i],
                          <<Fin(frame.columns[j]), frame.cells[<<i, j>>]>>)]
    IN SelectSeq(all, LAMBDA l : ~IsNaN(l.fields[2]))

\* Matrix.to_csv(fp, format) on the Matrix storing frame: the tall file has
\* the columns origin, destination and "0" (the Series has no name), the
\* wide file one column per destination.  A Matrix that stores None has
\* nothing to stack or write.
to_csv(frame, format) ==
    IF format = "tall"
    THEN IF ~frame.some THEN NotWritten("AttributeError")
         ELSE Written(File(<<TextLabel("Unnamed: 1"), IntLabel(0)>>,
                           Stack(frame)))
    ELSE IF format = "wide"
    THEN IF ~frame.some THEN NotWritten("AttributeError")
         ELSE Written(File(
                [j \in DOMAIN frame.columns |-> IntLabel(frame.columns[j])],
                [i \in DOMAIN frame.index |->
                    Line(frame.index[i],
                         [j \in DOMAIN frame.columns |->
                            Format(frame.cells[<<i, j>>])])]))
    ELSE NotWritten("AttributeError")

\* 999.99, the default fill_value of read_csv
DefaultFill == Frac(99999, 100)

\* The (origin, destination) pairs of the lines of a tall file.
TallPairs(lines) ==
    {<<lines[e].id, lines[e].fields[1].n>> : e \in DOMAIN lines}

\* s.unstack().fillna(fill_value) of the lines of a tall file: origins and
\* destinations sorted, fill_value for a pair that has no line and for a
\* value that is NaN.
Unstacked(lines, fill_value) ==
    LET index == SortedIds({p[1] : p \in TallPairs(lines)})
        columns == SortedIds({p[2] : p \in TallPairs(lines)})
        cells == [p \in (DOMAIN index) \X (DOMAIN columns) |->
            LET hit == {e \in DOMAIN lines :
                            /\ lines[e].id = index[p[1]]
                            /\ lines[e].fields[1].n = columns[p[2]]}
                v == IF hit = {} THEN NaN
                     ELSE Parse(lines[CHOOSE e \in hit : TRUE].fields[2])
            IN IF IsNaN(v) THEN fill_value ELSE v]
    IN Frame(index, columns, cells, TRUE, TRUE)

\* read_csv(fp, fill_value, name).  Column labels that all convert to int
\* make a wide file, which is taken as it is; otherwise the file is tall
\* and must have two columns after the first.  A tall file of one line
\* squeezes to a scalar, which has no index; one without lines gives a
\* frame whose empty index has no integer dtype; a repeated pair cannot be
\* unstacked.
read_csv(f, fill_value, nm) ==
    IF ~f.exists THEN Failed("FileNotFoundError", NoMatrix)
    ELSE IF \A j \in DOMAIN f.header : f.header[j].int
    THEN Matrix__init__(NoMatrix,
            Frame([i \in DOMAIN f.lines |-> f.lines[i].id],
                  [j \in DOMAIN f.header |-> f.header[j].val],
                  [p \in (DOMAIN f.lines) \X (DOMAIN f.header) |->
                        Parse(f.lines[p[1]].fields[p[2]])],
                  f.lines # <<>>, TRUE),
            NoFrame, nm)
    ELSE IF Len(f.header) # 2 THEN Failed("RuntimeError", NoMatrix)
    ELSE IF Len(f.lines) = 1 THEN Failed("AttributeError", NoMatrix)
    ELSE IF Len(f.lines) = 0 THEN Failed("ValueError", NoMatrix)
    ELSE IF Cardinality(TallPairs(f.lines)) # Len(f.lines)
    THEN Failed("ValueError", NoMatrix)
    ELSE Matrix__init__(NoMatrix, Unstacked(f.lines, fill_value), NoFrame, nm)

-----------------------------------------------------------------------------
(* The calls tried.                                                        *)

Thresholds == {5 * i : i \in 0..MaxCostLevel}

\* beta in tenths: -0.1 is valid, 0.0 and 0.1 are not
Betas == {0 - 1, 0, 1}
\* sigma: 10 is valid, 0 and -10 are not
Sigmas == {10, 0, 0 - 10}

\* impedance_function and its keyword argument, as given to
\* calc_access_to_opportunities
ImpedanceChoices ==
    {<<"within_threshold", 5>>, <<"within_threshold", 10>>,
     <<"negative_exp", 0 - 1>>, <<"negative_exp", 0>>, <<"gaussian", 10>>,
     <<"gaussian", 0>>}

\* "max" is the spelling the normalization chain tests for
NormalizeChoices == NormalizeOptions \cup {"max"}

\* Destination weights: matching a table with destinations 20 and 21, the
\* same in another order, with a key that is no destination (25) in place
\* of 21, and with that key added.
DestinationWeightChoices ==
    {NoWeights,
     Weights(<<20, 21>>, <<Fin(1), Fin(3)>>),
     Weights(<<21, 20>>, <<Fin(3), Fin(1)>>),
     Weights(<<20, 25>>, <<Fin(1), Fin(5)>>),
     Weights(<<20, 21, 25>>, <<Fin(1), Fin(3), Fin(5)>>)}

\* Origin weights: matching a table with origins 1 and 2, the same in
\* another order, and with a key that is no origin (0) in place of 1.
OriginWeightChoices ==
    {NoWeights,
     Weights(<<1, 2>>, <<Fin(12), Fin(15)>>),
     Weights(<<2, 1>>, <<Fin(15), Fin(12)>>),
     Weights(<<0, 2>>, <<Fin(12), Fin(15)>>)}

NoCall ==
    [op |-> "none", impedance_function |-> "none", param |-> 0,
     reverse_direction |-> FALSE, n |-> 0, n_type |-> "int",
     normalize |-> "none",
     destination_weights |-> NoWeights, origin_weights |-> NoWeights,
     matrix |-> NoMatrix, df |-> NoFrame, data |-> NoFrame,
     name |-> Str("matrix"), format |-> "none"]

\* As Ended, the call having re-indexed the weight vectors it was given in
\* place (the vectors the caller holds are the re-indexed ones).
Ended_reindexing_in_place(c, r) ==
    /\ status = "init"
    /\ LET res == r
           wide == process_cost_matrix(df, NaN).ret
       IN /\ call' = [c EXCEPT
                !.destination_weights =
                    IF "destination" \in res.reindexed
                    THEN Reindex(c.destination_weights, wide.columns, Zero)
                    ELSE c.destination_weights,
                !.origin_weights =
                    IF "origin" \in res.reindexed
                    THEN Reindex(c.origin_weights, wide.index, Zero)
                    ELSE c.origin_weights]
          /\ status' = res.status
          /\ ret' = res.ret
          /\ reindexed' = res.reindexed
    /\ UNCHANGED <<df, diagnostics, matrix, name, file, otp2>>

\* A call is made when no result is pending, and has ended with outcome r;
\* nothing it was given has changed (call holds the arguments as the caller
\* holds them after the call), and the code issues no warning anywhere (it
\* builds RuntimeWarning objects and drops them).
Ended(c, r) ==
    /\ status = "init"
    /\ LET res == r
       IN /\ call' = c
          /\ status' = res.status
          /\ ret' = res.ret
          /\ reindexed' = res.reindexed
    /\ UNCHANGED <<df, diagnostics, matrix, name, file, otp2>>

WithinThreshold ==
    \E t \in Thresholds :
        Ended([NoCall EXCEPT !.op = "within_threshold",
                             !.impedance_function = "within_threshold",
                             !.param = t],
              within_threshold(df, t))

NegativeExp ==
    \E b \in Betas :
        Ended([NoCall EXCEPT !.op = "negative_exp",
                             !.impedance_function = "negative_exp",
                             !.param = b],
              negative_exp(df, b))

Gaussian ==
    \E sg \in Sigmas :
        Ended([NoCall EXCEPT !.op = "gaussian",
                             !.impedance_function = "gaussian",
                             !.param = sg],
              gaussian(df, sg))

CalcAccessToOpportunities ==
    \E f \in ImpedanceChoices, dw \in DestinationWeightChoices,
       ow \in OriginWeightChoices, nz \in NormalizeChoices :
        Ended([NoCall EXCEPT !.op = "calc_access_to_opportunities",
                             !.impedance_function = f[1],
                             !.param = f[2],
                             !.normalize = nz,
                             !.destination_weights = dw,
                             !.origin_weights = ow],
              calc_access_to_opportunities(df, f[1], f[2], dw, ow, nz))

HasOpportunity ==
    \E t \in Thresholds, rev \in BOOLEAN :
        Ended([NoCall EXCEPT !.op = "has_opportunity",
                             !.impedance_function = "within_threshold",
                             !.param = t,
                             !.reverse_direction = rev],
              has_opportunity(df, t, rev))

ClosestOpportunity ==
    \E rev \in BOOLEAN :
        Ended([NoCall EXCEPT !.op = "closest_opportunity",
                             !.reverse_direction = rev],
              closest_opportunity(df, rev))

\* n from -1 to MaxN as an int, and 2.0
NChoices == {IntN(k) : k \in (0 - 1)..MaxN} \cup {FloatN(2)}

NthClosestOpportunity ==
    \E k \in NChoices, rev \in BOOLEAN :
        Ended([NoCall EXCEPT !.op = "nth_closest_opportunity",
                             !.n = k.val,
                             !.n_type = k.type,
                             !.reverse_direction = rev],
              nth_closest_opportunity(df, k, rev))

\* The caller is done with the result of its last call and may call again.
Forget ==
    /\ status # "init"
    /\ call' = NoCall
    /\ status' = "init"
    /\ ret' = NoRet
    /\ reindexed' = {}
    /\ UNCHANGED <<df, diagnostics, matrix, name, file, otp2>>

-----------------------------------------------------------------------------
(* The Matrix the caller holds, and the calls tried on it.                 *)

\* The cells of a frame given row by row.
CellsOf(rows) ==
    [p \in (1..Len(rows)) \X (1..Len(rows[1])) |-> rows[p[1]][p[2]]]

MatrixValues == {Fin(0 - 5), Fin(5), NaN}

\* Two origins by two destinations, integer ids.
PlainFrames ==
    {Frame(<<1, 2>>, <<20, 21>>, c, TRUE, TRUE) :
        c \in [(1..2) \X (1..2) -> MatrixValues]}

\* Frames with a zero cost, a column of strings, a repeated destination id,
\* a repeated origin id, and ids that are no integers.
OddFrames ==
    {Frame(<<1, 2>>, <<20, 21>>,
           CellsOf(<<r1, r2>>), TRUE, TRUE) :
        r1 \in {<<Zero, Fin(5)>>, <<Text, Fin(5)>>, <<Text, Fin(0 - 5)>>},
        r2 \in {<<Fin(5), Fin(5)>>}}
    \cup {Frame(<<1, 2>>, <<20, 20>>, CellsOf(<<<<Fin(5), x>>, <<Fin(5), Fin(5)>>>>),
                TRUE, TRUE) : x \in {Fin(5), Fin(0 - 5)}}
    \cup {Frame(<<1, 1>>, <<20, 21>>, CellsOf(<<<<Fin(5), x>>, <<Fin(5), Fin(5)>>>>),
                TRUE, TRUE) : x \in {Fin(5), Fin(0 - 5)}}
    \cup {Frame(<<1, 2>>, <<20, 21>>, CellsOf(<<<<Fin(5), x>>, <<Fin(5), Fin(5)>>>>),
                i, ~i) : x \in {Fin(5), Fin(0 - 5)}, i \in BOOLEAN}

InputFrames == PlainFrames \cup OddFrames

Names == {Str("test_matrix"), NotStr}

\* A constructor call or an assignment ends: the caller holds the object
\* made, or on an exception the object it held before.
MatrixEnded(c, r) ==
    /\ status = "init"
    /\ LET res == r
       IN /\ call' = c
          /\ status' = res.status
          /\ matrix' = IF res.status = "ok" THEN res.matrix ELSE matrix
          /\ name' = IF res.status = "ok" THEN res.name ELSE name
    /\ ret' = NoRet
    /\ UNCHANGED <<df, diagnostics, reindexed, file, otp2>>

Constructed(other, frame, data, nm) ==
    MatrixEnded([NoCall EXCEPT !.op = "Matrix", !.matrix = other,
                               !.df = frame, !.data = data, !.name = nm],
                Matrix__init__(other, frame, data, nm))

\* Matrix(other), other being the Matrix held; with df or data as well the
\* arguments conflict.
MatrixFromMatrix ==
    \E nm \in Names, frame \in {NoFrame, CHOOSE f \in PlainFrames : TRUE},
       as_df \in BOOLEAN :
        Constructed(MatrixObject(matrix, name),
                    IF as_df THEN frame ELSE NoFrame,
                    IF as_df THEN NoFrame ELSE frame, nm)

\* Matrix(df=frame)
MatrixFromDf ==
    \E nm \in Names, frame \in InputFrames,
       data \in {NoFrame, CHOOSE f \in PlainFrames : TRUE} :
        Constructed(NoMatrix, frame, data, nm)

\* Matrix(data=..., origins=..., destinations=...)
MatrixFromData ==
    \E nm \in Names, data \in InputFrames :
        Constructed(NoMatrix, NoFrame, data, nm)

\* Matrix()
MatrixEmpty ==
    \E nm \in Names : Constructed(NoMatrix, NoFrame, NoFrame, nm)

\* held.matrix = frame
SetMatrix ==
    \E frame \in InputFrames \cup {NoFrame} :
        MatrixEnded([NoCall EXCEPT !.op = "matrix_setter", !.df = frame],
                    matrix_setter(MatrixObject(matrix, name), frame))

\* held.name = nm
SetName ==
    \E nm \in Names \cup {Str("matrix")} :
        MatrixEnded([NoCall EXCEPT !.op = "name_setter", !.name = nm],
                    name_setter(MatrixObject(matrix, name), nm))

\* held.to_csv(fp, format): the file at fp is written, or left as it was
\* when the call raises.
ToCsv ==
    \E format \in {"tall", "wide", "long"} :
        /\ status = "init"
        /\ LET res == to_csv(matrix, format)
           IN /\ call' = [NoCall EXCEPT !.op = "to_csv", !.format = format]
              /\ status' = res.status
              /\ file' = IF res.status = "ok" THEN res.file ELSE file
        /\ ret' = NoRet
        /\ UNCHANGED <<df, diagnostics, reindexed, matrix, name, otp2>>

\* held = read_csv(fp, name=nm)
ReadCsv ==
    \E nm \in Names :
        MatrixEnded([NoCall EXCEPT !.op = "read_csv", !.name = nm],
                    read_csv(file, DefaultFill, nm))

-----------------------------------------------------------------------------
(* OTP2TravelTimeComputer: the object, and the files, processes and        *)
(* requests around it.                                                     *)

\* Python's None, for a path that has not been set
None == "None"

\* A URL: the host requested and the path on it.
Url(host, path) == [host |-> host, path |-> path]
LocalHost == "http://localhost:8080"
GraphQL == "/otp/routers/default/index/graphql"
Hosts == {LocalHost, "http://otp.example.org:9090"}
JavaPaths == {"/usr/bin/java"}
OtpJarPaths == {"/opt/otp/otp-2.4.0-shaded.jar"}

\* self._max_server_sleep_time = 30
DefaultMaxServerSleepTime == 30

\* The sleep times assigned are -1..MaxSleepTime seconds.
MaxSleepTime == 2
\* Departure windows are 0..MaxWindow minutes.
MaxWindow == 3
\* Time increments are 0..MaxIncrement minutes.
MaxIncrement == 2
\* At most MaxSamples trips are requested by one call.
MaxSamples == 3

\* The object as __init__ leaves it.
OTP2TravelTimeComputer__init__ ==
    /\ _java_path = None
    /\ _otp_jar_path = None
    /\ _request_host_url = LocalHost
    /\ _request_api = Url(LocalHost, GraphQL)
    /\ _max_server_sleep_time = DefaultMaxServerSleepTime

\* How a method ended and what it returned.
NoResult == [status |-> "none", value |-> NaN]
Returns(v) == [status |-> "returned", value |-> v]
Raises(exc) == [status |-> exc, value |-> NaN]
\* a method without a return statement
ReturnsNone == [status |-> "returned", value |-> NaN]

\* The arguments and local variables of the method being executed; slept
\* is the time spent in sleep() and departures are the trip departures
\* passed to compute_transit_traveltime, in minutes after `departure`.
NoLocals ==
    [overwrite |-> FALSE, launch_server |-> FALSE,
     t |-> 0, slept |-> 0,
     departure_time_window |-> 0, time_increment |-> 0, same_point |-> FALSE,
     elapsed_time |-> 0, trip_departure |-> 0, travel_times |-> <<>>,
     departures |-> <<>>]

\* No method is being executed.
Idle ==
    /\ method = "none"
    /\ pc = "idle"
    /\ locals = NoLocals
    /\ result = NoResult
    /\ sent = {}

\* Method o ends with result r, its local variables being l.
EndsWith(o, l, r) ==
    /\ method' = o
    /\ pc' = "done"
    /\ locals' = l
    /\ result' = r

\* The caller has taken the result; the next method can be called.
Discard ==
    /\ pc = "done"
    /\ method' = "none"
    /\ pc' = "idle"
    /\ locals' = NoLocals
    /\ result' = NoResult
    /\ sent' = {}
    /\ UNCHANGED <<_java_path, _otp_jar_path, _request_host_url, _request_api,
                   _max_server_sleep_time, graph_obj, processes, measures>>

\* self.java_path = new_path: `new_path.is_file` is not called, so the test
\* on it never fails.
SetJavaPath ==
    \E new_path \in JavaPaths :
        /\ pc = "idle"
        /\ _java_path' = new_path
        /\ EndsWith("java_path", NoLocals, ReturnsNone)
        /\ UNCHANGED <<_otp_jar_path, _request_host_url, _request_api,
                       _max_server_sleep_time, graph_obj, processes, sent,
                       measures>>

\* self.otp_jar_path = new_path
SetOtpJarPath ==
    \E new_path \in OtpJarPaths :
        /\ pc = "idle"
        /\ _otp_jar_path' = new_path
        /\ EndsWith("otp_jar_path", NoLocals, ReturnsNone)
        /\ UNCHANGED <<_java_path, _request_host_url, _request_api,
                       _max_server_sleep_time, graph_obj, processes, sent,
                       measures>>

\* self.request_host_url = new_url
SetRequestHostUrl ==
    \E new_url \in Hosts :
        /\ pc = "idle"
        /\ _request_host_url' = new_url
        /\ _request_api' = Url(new_url, GraphQL)
        /\ EndsWith("request_host_url", NoLocals, ReturnsNone)
        /\ UNCHANGED <<_java_path, _otp_jar_path, _max_server_sleep_time,
                       graph_obj, processes, sent, measures>>

\* self.max_server_sleep_time = new_sleep_time, a number
SetMaxServerSleepTime ==
    \E new_sleep_time \in (0 - 1)..MaxSleepTime :
        /\ pc = "idle"
        /\ IF new_sleep_time < 0
           THEN /\ EndsWith("max_server_sleep_time", NoLocals,
                            Raises("ValueError"))
                /\ UNCHANGED _max_server_sleep_time
           ELSE /\ EndsWith("max_server_sleep_time", NoLocals, ReturnsNone)
                /\ _max_server_sleep_time' = new_sleep_time
        /\ UNCHANGED <<_java_path, _otp_jar_path, _request_host_url,
                       _request_api, graph_obj, processes, sent, measures>>

\* test_otp_server(): what requests.get(self._request_host_url) gives is
\* either a response or ConnectionError; None for a response is what the
\* method tests for.
Answers == {"response", "ConnectionError"}
test_otp_server(host) ==
    IF host = "ConnectionError" THEN Raises("ConnectionError")
    ELSE IF host = None THEN Raises("RuntimeError")
    ELSE ReturnsNone

\* The start of launch_local_otp2_server(path), up to its loop, called as
\* method o or at the end of it with local variables l; graph and started
\* are graph.obj and the processes as the caller has left them.
LaunchedAs(o, l, graph, started) ==
    IF ~graph
    THEN /\ EndsWith(o, l, Raises("FileExistsError"))
         /\ processes' = started
    ELSE IF _java_path = None \/ _otp_jar_path = None
    THEN /\ EndsWith(o, l, Raises("FileNotFoundError"))
         /\ processes' = started
    ELSE /\ processes' = started \cup {"server"}
         /\ method' = o
         /\ pc' = "probe"
         /\ locals' = [l EXCEPT !.t = 0, !.slept = 0]
         /\ result' = NoResult

\* self.launch_local_otp2_server(path)
LaunchLocalOtp2Server ==
    /\ pc = "idle"
    /\ LaunchedAs("launch_local_otp2_server", NoLocals, graph_obj, processes)
    /\ UNCHANGED <<_java_path, _otp_jar_path, _request_host_url, _request_api,
                   _max_server_sleep_time, graph_obj, sent, measures>>

\* What `java -jar otp.jar --build --save path` does: it writes graph.obj,
\* exits without writing it, or exits with an error (check=True).
Builds == {"graph.obj", "nothing", "CalledProcessError"}

\* self.build_network_from_dir(path, overwrite, launch_server)
BuildNetworkFromDir ==
    \E overwrite \in BOOLEAN, launch_server \in BOOLEAN, built \in Builds :
        LET l == [NoLocals EXCEPT !.overwrite = overwrite,
                                  !.launch_server = launch_server]
            o == "build_network_from_dir"
        IN /\ pc = "idle"
           /\ IF graph_obj /\ ~overwrite
              THEN /\ EndsWith(o, l, Raises("FileExistsError"))
                   /\ UNCHANGED <<graph_obj, processes>>
              ELSE IF _java_path = None \/ _otp_jar_path = None
              THEN \* graph.obj, if there was one, has been unlinked
                   /\ EndsWith(o, l, Raises("FileNotFoundError"))
                   /\ graph_obj' = FALSE
                   /\ UNCHANGED processes
              ELSE /\ graph_obj' = (built = "graph.obj")
                   /\ IF built = "CalledProcessError"
                      THEN /\ EndsWith(o, l, Raises("CalledProcessError"))
                           /\ processes' = processes \cup {"build"}
                      ELSE IF built = "nothing"
                      THEN /\ EndsWith(o, l, Raises("FileExistsError"))
                           /\ processes' = processes \cup {"build"}
                      ELSE IF launch_server
                      THEN LaunchedAs(o, l, TRUE, processes \cup {"build"})
                      ELSE /\ EndsWith(o, l, ReturnsNone)
                           /\ processes' = processes \cup {"build"}
           /\ UNCHANGED <<_java_path, _otp_jar_path, _request_host_url,
                          _request_api, _max_server_sleep_time, sent,
                          measures>>

\* The loop of launch_local_otp2_server, at self.test_otp_server(): a
\* response ends the loop and the method; no response leads to the sleep.
Probe ==
    \E host \in Answers :
        /\ pc = "probe"
        /\ sent' = sent \cup {Url(_request_host_url, "")}
        /\ IF test_otp_server(host).status = "returned"
           THEN EndsWith(method, locals, ReturnsNone)
           ELSE /\ pc' = "sleep"
                /\ UNCHANGED <<method, locals, result>>
        /\ UNCHANGED <<_java_path, _otp_jar_path, _request_host_url,
                       _request_api, _max_server_sleep_time, graph_obj,
                       processes, measures>>

\* The loop of launch_local_otp2_server, at sleep(increment): the sleep,
\* the test of t and its increment; increment = 1.
Sleep ==
    /\ pc = "sleep"
    /\ LET l == [locals EXCEPT !.slept = @ + 1]
       IN IF locals.t >= _max_server_sleep_time
          THEN EndsWith(method, l, Raises("RuntimeError"))
          ELSE /\ locals' = [l EXCEPT !.t = @ + 1]
               /\ pc' = "probe"
               /\ UNCHANGED <<method, result>>
    /\ UNCHANGED <<_java_path, _otp_jar_path, _request_host_url, _request_api,
                   _max_server_sleep_time, graph_obj, processes, sent,
                   measures>>

\* self.test_otp_server()
TestOtpServer ==
    \E host \in Answers :
        /\ pc = "idle"
        /\ sent' = {Url(_request_host_url, "")}
        /\ EndsWith("test_otp_server", NoLocals, test_otp_server(host))
        /\ UNCHANGED <<_java_path, _otp_jar_path, _request_host_url,
                       _request_api, _max_server_sleep_time, graph_obj,
                       processes, measures>>

\* self.test_departure_within_service_time_range(date_time): the requests
\* it sends and how it ends; host and request are what the server gives
\* to the two requests, within is whether date_time is in the graph's
\* service time range.
test_departure_within_service_time_range(host, request, within) ==
    LET probe == Url(_request_host_url, "")
        query == Url(LocalHost, GraphQL)
    IN IF test_otp_server(host).status # "returned"
       THEN [sent |-> {probe}, result |-> test_otp_server(host)]
       ELSE IF request = "ConnectionError"
       THEN [sent |-> {probe, query}, result |-> Raises("ConnectionError")]
       ELSE IF ~within
       THEN [sent |-> {probe, query}, result |-> Raises("ValueError")]
       ELSE [sent |-> {probe, query}, result |-> ReturnsNone]

\* The duration of the trip found, in minutes; NaN when the server has
\* found no itinerary.
Durations == {NaN, Fin(10), Fin(30)}

\* self.compute_walk_trip_traveltime(origin, destination): same_point is
\* origin == destination.
compute_walk_trip_traveltime(same_point, request, duration) ==
    IF same_point THEN [sent |-> {}, result |-> Returns(Zero)]
    ELSE IF request = "ConnectionError"
    THEN [sent |-> {_request_api}, result |-> Raises("ConnectionError")]
    ELSE [sent |-> {_request_api}, result |-> Returns(duration)]

\* self.compute_transit_traveltime(origin, destination, triptime,
\* skip_test_trip_date=skip): tested is what the test of triptime gives.
compute_transit_traveltime(same_point, skip, tested, request, duration) ==
    IF same_point THEN [sent |-> {}, result |-> Returns(Zero)]
    ELSE IF ~skip /\ tested.result.status # "returned" THEN tested
    ELSE LET before == IF skip THEN {} ELSE tested.sent
         IN IF request = "ConnectionError"
            THEN [sent |-> before \cup {_request_api},
                  result |-> Raises("ConnectionError")]
            ELSE [sent |-> before \cup {_request_api},
                  result |-> Returns(duration)]

\* np.median(travel_times): NaN when one of the values is NaN
np_median(travel_times) ==
    IF \E i \in DOMAIN travel_times : IsNaN(travel_times[i]) THEN NaN
    ELSE Median(travel_times)

\* A method that ends in one step, sending what r.sent holds
EndsAtOnce(o, l, r) ==
    /\ pc = "idle"
    /\ sent' = r.sent
    /\ EndsWith(o, l, r.result)
    /\ UNCHANGED <<_java_path, _otp_jar_path, _request_host_url,
                   _request_api, _max_server_sleep_time, graph_obj,
                   processes, measures>>

\* self.test_departure_within_service_time_range(date_time)
TestDepartureWithinServiceTimeRange ==
    \E host \in Answers, request \in Answers, within \in BOOLEAN :
        EndsAtOnce("test_departure_within_service_time_range", NoLocals,
                   test_departure_within_service_time_range(host, request,
                                                            within))

\* self.compute_walk_trip_traveltime(origin, destination)
ComputeWalkTripTraveltime ==
    \E same_point \in BOOLEAN, request \in Answers, duration \in Durations :
        EndsAtOnce("compute_walk_trip_traveltime",
                   [NoLocals EXCEPT !.same_point = same_point],
                   compute_walk_trip_traveltime(same_point, request, duration))

\* self.compute_transit_traveltime(origin, destination, triptime,
\* skip_test_trip_date=skip)
ComputeTransitTraveltime ==
    \E same_point \in BOOLEAN, skip \in BOOLEAN, host \in Answers,
       request \in Answers, within \in BOOLEAN, duration \in Durations :
        EndsAtOnce("compute_transit_traveltime",
                   [NoLocals EXCEPT !.same_point = same_point],
                   compute_transit_traveltime(same_point, skip,
                       test_departure_within_service_time_range(host, request,
                                                                within),
                       request, duration))

\* self.compute_interval_transit_traveltime(origin, destination, departure,
\* departure_time_window, time_increment, skip_test_trip_date=skip), up to
\* its loop.
ComputeIntervalTransitTraveltime ==
    \E departure_time_window \in 0..MaxWindow, time_increment \in 0..MaxIncrement,
       same_point \in BOOLEAN, skip \in BOOLEAN, host \in Answers,
       request \in Answers, within \in BOOLEAN :
        LET o == "compute_interval_transit_traveltime"
            l == [NoLocals EXCEPT
                     !.departure_time_window = departure_time_window,
                     !.time_increment = time_increment,
                     !.same_point = same_point]
            tested == test_departure_within_service_time_range(host, request,
                                                               within)
        IN /\ pc = "idle"
           /\ IF ~skip /\ tested.result.status # "returned"
              THEN /\ sent' = tested.sent
                   /\ EndsWith(o, l, tested.result)
              ELSE /\ sent' = IF skip THEN {} ELSE tested.sent
                   /\ method' = o
                   /\ pc' = "sample"
                   /\ locals' = l
                   /\ result' = NoResult
           /\ UNCHANGED <<_java_path, _otp_jar_path, _request_host_url,
                          _request_api, _max_server_sleep_time, graph_obj,
                          processes, measures>>

\* One turn of the loop of compute_interval_transit_traveltime: the trip at
\* trip_departure is requested, and the loop ends when elapsed_time has
\* reached departure_time_window.
Sample ==
    \E request \in Answers, duration \in Durations :
        LET trip == compute_transit_traveltime(locals.same_point, TRUE,
                        [sent |-> {}, result |-> ReturnsNone],
                        request, duration)
            l == [locals EXCEPT
                     !.travel_times = Append(@, trip.result.value),
                     !.departures = Append(@, locals.trip_departure),
                     !.trip_departure = @ + locals.time_increment,
                     !.elapsed_time = @ + locals.time_increment]
        IN /\ pc = "sample"
           /\ Len(locals.travel_times) < MaxSamples
           /\ sent' = sent \cup trip.sent
           /\ IF trip.result.status # "returned"
              THEN EndsWith(method, [locals EXCEPT
                                    !.departures = Append(@, locals.trip_departure)],
                            trip.result)
              ELSE IF l.elapsed_time >= l.departure_time_window
              THEN EndsWith(method, l, Returns(np_median(l.travel_times)))
              ELSE /\ locals' = l
                   /\ pc' = "sample"
                   /\ UNCHANGED <<method, result>>
           /\ UNCHANGED <<_java_path, _otp_jar_path, _request_host_url,
                          _request_api, _max_server_sleep_time, graph_obj,
                          processes, measures>>

\* No OTP2TravelTimeComputer method is called: the object stays as
\* constructed, in a directory without a graph.
NoOtp2 ==
    /\ OTP2TravelTimeComputer__init__
    /\ graph_obj = FALSE
    /\ processes = {}
    /\ Idle

-----------------------------------------------------------------------------
(* Specifications.                                                         *)

\* The caller holds Matrix() and has called nothing.
NotCalled ==
    /\ call = NoCall
    /\ status = "init"
    /\ ret = NoRet
    /\ diagnostics = <<>>
    /\ reindexed = {}
    /\ matrix = NoFrame
    /\ name = Str("matrix")
    /\ file = NoFile
    /\ NoOtp2

\* Spec: every function, on the tables the primal measure is tried on.
Init == df \in PrimalTables /\ NotCalled

Next ==
    \/ WithinThreshold
    \/ NegativeExp
    \/ Gaussian
    \/ CalcAccessToOpportunities
    \/ HasOpportunity
    \/ ClosestOpportunity
    \/ NthClosestOpportunity
    \/ Forget

Spec == Init /\ [][Next]_vars

\* SpecDual: the impedance functions and the dual measures, on tables that
\* also hold infinite costs and costs above 10000.
InitDual == df \in DualTables /\ NotCalled

NextDual ==
    \/ WithinThreshold
    \/ NegativeExp
    \/ Gaussian
    \/ HasOpportunity
    \/ ClosestOpportunity
    \/ NthClosestOpportunity
    \/ Forget

SpecDual == InitDual /\ [][NextDual]_vars

-----------------------------------------------------------------------------
(* What the claims are stated in: the tall table read directly.            *)

FromIds == {r.from_id : r \in df}
ToIds == {r.to_id : r \in df}

\* The travel time the table gives for a pair, NaN when it gives none.
CostOf(o, d) ==
    IF \E r \in df : r.from_id = o /\ r.to_id = d
    THEN (CHOOSE r \in df : r.from_id = o /\ r.to_id = d).travel_time
    ELSE NaN

\* The cost is a number (not NaN, not inf) of at most t.
CostWithin(o, d, t) ==
    \E r \in df : /\ r.from_id = o
                  /\ r.to_id = d
                  /\ r.travel_time.k = "fin"
                  /\ r.travel_time.n <= t * r.travel_time.d

\* The impedance of a pair under the impedance function of the last call.
ImpedanceOf(o, d) ==
    CASE call.impedance_function = "within_threshold" ->
            IF CostWithin(o, d, call.param) THEN One ELSE Zero
      [] call.impedance_function = "negative_exp" ->
            NegExpCell(CostOf(o, d), call.param)
      [] call.impedance_function = "gaussian" ->
            GaussianCell(CostOf(o, d), call.param)

RECURSIVE SumOver(_, _)
\* The float sum of g over the set S: NaN as soon as one term is NaN.
SumOver(S, g) ==
    IF S = {} THEN Zero
    ELSE LET x == CHOOSE x \in S : TRUE
         IN Add(g[x], SumOver(S \ {x}, g))

Returned(op) == call.op = op /\ status = "ok"

\* The keys of a weight vector, and the weight it gives a key.
KeysOf(w) == Range(w.idx)
WeightOf(w, key) == w.val[CHOOSE i \in DOMAIN w.idx : w.idx[i] = key]

\* calc_access_to_opportunities returned a value per origin, not normalized.
ReturnedAccess ==
    /\ Returned("calc_access_to_opportunities")
    /\ ~call.origin_weights.some

\* What the last call to calc_access_to_opportunities would have returned
\* with the given normalize and no origin_weights.
AccessWith(normalize) ==
    calc_access_to_opportunities(df, call.impedance_function, call.param,
        call.destination_weights, NoWeights, normalize).ret

\* SpecMatrix: the constructor routes and the setters of Matrix.
InitMatrix == df = ReferenceTable /\ NotCalled

NextMatrix ==
    \/ MatrixFromMatrix
    \/ MatrixFromDf
    \/ MatrixFromData
    \/ MatrixEmpty
    \/ SetMatrix
    \/ SetName
    \/ Forget

SpecMatrix == InitMatrix /\ [][NextMatrix]_vars

\* ref_mat of test_read_tall_full
SmallMatrix ==
    Frame(<<1, 2>>, <<4, 5, 6>>,
          CellsOf(<<<<Fin(10), Fin(15), Fin(20)>>, <<Fin(5), Fin(8), Fin(12)>>>>),
          TRUE, TRUE)

\* The tables of the Matrix objects that the constructor makes of the
\* frames tried, None (of Matrix()) included.
HeldFrames ==
    {f \in InputFrames \cup {NoFrame, SmallMatrix} :
        Matrix__init__(NoMatrix, f, NoFrame, Str("matrix")).status = "ok"}

\* SpecCsv: a Matrix is written to a file and a Matrix is read from it.
InitCsv ==
    /\ df = ReferenceTable
    /\ call = NoCall
    /\ status = "init"
    /\ ret = NoRet
    /\ diagnostics = <<>>
    /\ reindexed = {}
    /\ matrix \in HeldFrames
    /\ name = Str("matrix")
    /\ file = NoFile
    /\ NoOtp2

NextCsv ==
    \/ ToCsv
    \/ ReadCsv
    \/ Forget

SpecCsv == InitCsv /\ [][NextCsv]_vars

\* SpecServer: an OTP2TravelTimeComputer is configured, builds its network
\* and launches its server, in a directory with or without a graph.obj.
InitServer ==
    /\ df = ReferenceTable
    /\ call = NoCall
    /\ status = "init"
    /\ ret = NoRet
    /\ diagnostics = <<>>
    /\ reindexed = {}
    /\ matrix = NoFrame
    /\ name = Str("matrix")
    /\ file = NoFile
    /\ OTP2TravelTimeComputer__init__
    /\ graph_obj \in BOOLEAN
    /\ processes = {}
    /\ Idle

NextServer ==
    \/ SetJavaPath
    \/ SetOtpJarPath
    \/ SetMaxServerSleepTime
    \/ BuildNetworkFromDir
    \/ LaunchLocalOtp2Server
    \/ Probe
    \/ Sleep
    \/ Discard

SpecServer == InitServer /\ [][NextServer]_vars

\* SpecTrips: an OTP2TravelTimeComputer is pointed at a server and asks it
\* for trips.
NextTrips ==
    \/ SetRequestHostUrl
    \/ TestOtpServer
    \/ TestDepartureWithinServiceTimeRange
    \/ ComputeWalkTripTraveltime
    \/ ComputeTransitTraveltime
    \/ ComputeIntervalTransitTraveltime
    \/ Sample
    \/ Discard

SpecTrips == InitServer /\ [][NextTrips]_vars

-----------------------------------------------------------------------------
(* Claims.                                                                 *)

\* The largest of the values of a series that are not NaN.
LargestOf(series) ==
    CHOOSE x \in Range(series.cells) :
        ~IsNaN(x) /\ \A y \in Range(series.cells) : IsNaN(y) \/ Leq(y, x)

\* C1: with normalize="maximum" and no origin_weights, every origin's value
\* is its unnormalized accessibility divided by the largest unnormalized
\* accessibility of all origins (stated where that largest value is
\* positive, so that the quotient is a number and the largest quotient 1).
C1_MaximumDividesByMax ==
    (/\ ReturnedAccess
     /\ call.normalize = "maximum"
     /\ \E x \in Range(AccessWith("none").cells) : Lt(Zero, x)) =>
        LET raw == AccessWith("none")
        IN /\ ret.kind = "series"
           /\ \A o \in FromIds :
                ret.cells[o] = Div(raw.cells[o], LargestOf(raw))
           /\ \E o \in FromIds : ret.cells[o] = One

\* C2: within_threshold returns a table with a cell for every origin and
\* destination of the cost table; the cell is 1 exactly when the pair has a
\* cost that is a number <= threshold, and 0 otherwise (so 0 for a missing
\* or NaN pair).
C2_WithinThresholdCells ==
    Returned("within_threshold") =>
        /\ ret.kind = "table"
        /\ Range(ret.index) = FromIds
        /\ Range(ret.columns) = ToIds
        /\ DOMAIN ret.cells = FromIds \X ToIds
        /\ \A o \in FromIds, d \in ToIds :
            /\ ret.cells[<<o, d>>] \in {Zero, One}
            /\ ret.cells[<<o, d>>] = One <=> CostWithin(o, d, call.param)

\* A cost equal to the threshold gave 1, a larger one gave 0 and a missing
\* pair gave 0, in one table.
C2_Witness ==
    /\ Returned("within_threshold")
    /\ \E o \in FromIds, d \in ToIds :
        CostOf(o, d) = Fin(call.param) /\ ret.cells[<<o, d>>] = One
    /\ \E o \in FromIds, d \in ToIds :
        IsFinite(CostOf(o, d)) /\ ret.cells[<<o, d>>] = Zero
    /\ \E o \in FromIds, d \in ToIds :
        (\A r \in df : ~(r.from_id = o /\ r.to_id = d))
            /\ ret.cells[<<o, d>>] = Zero

\* The weight a vector gives a key, 0 for a key it does not have.
WeightOrZero(w, key) == IF key \in KeysOf(w) THEN WeightOf(w, key) ELSE Zero

C4_UnweightedDestinationAddsNothing ==
    (/\ ReturnedAccess
     /\ call.normalize = "none"
     /\ call.destination_weights.some) =>
        LET w == call.destination_weights
            zero_filled ==
                Weights(SortedIds(ToIds),
                        [i \in 1..Cardinality(ToIds) |->
                            WeightOrZero(w, SortedIds(ToIds)[i])])
        IN /\ \A o \in FromIds :
                ret.cells[o] =
                    SumOver(ToIds \cap KeysOf(w),
                            [d \in ToIds \cap KeysOf(w) |->
                                Mul(WeightOf(w, d), ImpedanceOf(o, d))])
           /\ ret = calc_access_to_opportunities(df,
                        call.impedance_function, call.param, zero_filled,
                        NoWeights, "none").ret

\* C5: with origin_weights the result is one scalar, the float sum over the
\* table's origins of per-origin accessibility x origin weight, an origin
\* without a weight entry counting with weight 0 and other keys ignored;
\* it is the same for every valid normalize (whatever normalize the call was
\* made with, normalize="none" gives the same result).
C5_OriginWeightedScalar ==
    (Returned("calc_access_to_opportunities") /\ call.origin_weights.some) =>
        /\ ret.kind = "scalar"
        /\ LET per_origin == AccessWith("none").cells
           IN ret.scalar =
                SumOver(FromIds,
                        [o \in FromIds |->
                            Mul(per_origin[o],
                                WeightOrZero(call.origin_weights, o))])
        /\ call.normalize \in NormalizeOptions
        /\ calc_access_to_opportunities(df, call.impedance_function,
                call.param, call.destination_weights, call.origin_weights,
                "none").ret = ret

\* The tests' case: weights 12 and 15 for the keys 0 and 2 on a table with
\* origins 1 and 2, origin 1 has a positive accessibility that is left out,
\* and normalize="median" made no difference.
C5_Witness ==
    /\ Returned("calc_access_to_opportunities")
    /\ call.origin_weights = Weights(<<0, 2>>, <<Fin(12), Fin(15)>>)
    /\ call.normalize = "median"
    /\ FromIds = {1, 2}
    /\ Lt(Zero, AccessWith("none").cells[1])
    /\ Lt(Zero, ret.scalar)
    /\ ret.scalar = Mul(Fin(15), AccessWith("none").cells[2])

\* A weight vector was given whose key set is not the axis it weighs.
KeySetMismatch ==
    \/ /\ call.destination_weights.some
       /\ KeysOf(call.destination_weights) # ToIds
    \/ /\ call.origin_weights.some
       /\ KeysOf(call.origin_weights) # FromIds

\* C6: a call that re-indexes a weight vector because its key set does not
\* match the axis returns and has emitted a warning the caller can observe;
\* a call whose weight key sets match emits none.
C6_ReindexWarns ==
    Returned("calc_access_to_opportunities") =>
        (KeySetMismatch <=> diagnostics # <<>>)

\* The keys the last dual measure is computed for, and the ids it reduces
\* over.
DualKeys == IF call.reverse_direction THEN ToIds ELSE FromIds
DualOthers == IF call.reverse_direction THEN FromIds ELSE ToIds
\* The cost between a key and one of the ids reduced over.
DualCost(key, other) ==
    IF call.reverse_direction THEN CostOf(other, key) ELSE CostOf(key, other)

\* C7: closest_opportunity returns, per origin (per destination when
\* reversed), the least finite cost of the row (column) whenever there is
\* one, whatever its magnitude; NaN and inf entries are ignored.
C7_ClosestIsLeastFiniteCost ==
    Returned("closest_opportunity") =>
        /\ ret.kind = "series"
        /\ DOMAIN ret.cells = DualKeys
        /\ \A key \in DualKeys :
            LET costs == {DualCost(key, x) : x \in DualOthers}
                finite == {c \in costs : IsFinite(c)}
            IN finite # {} =>
                /\ ret.cells[key] \in finite
                /\ \A c \in finite : Leq(ret.cells[key], c)

\* C8: nth_closest_opportunity returns, per origin (per destination when
\* reversed), the n-th smallest cost of the row (column): counted from 1 in
\* ascending order, equal costs counted separately, NaN after every number.
\* So the value is NaN when fewer than n entries are numbers, and otherwise
\* a number v with fewer than n entries below v and at least n entries at
\* most v.
C8_NthSmallestCost ==
    Returned("nth_closest_opportunity") =>
        /\ call.n >= 2
        /\ ret.kind = "series"
        /\ DOMAIN ret.cells = DualKeys
        /\ \A key \in DualKeys :
            LET v == ret.cells[key]
                numbers == {x \in DualOthers : ~IsNaN(DualCost(key, x))}
                below == {x \in DualOthers : Lt(DualCost(key, x), v)}
                atmost == {x \in DualOthers : Leq(DualCost(key, x), v)}
            IN IF Cardinality(numbers) < call.n THEN IsNaN(v)
               ELSE /\ v \in {DualCost(key, x) : x \in numbers}
                    /\ Cardinality(below) < call.n
                    /\ call.n <= Cardinality(atmost)

\* The tests' table: the row of origin 1 holds 5, 10, 15 and n = 2 gave 10;
\* the row of origin 2 holds 18, 13, 8 and gave 13.
C8_Witness ==
    /\ Returned("nth_closest_opportunity")
    /\ df = ReferenceTable
    /\ call.n = 2 /\ ~call.reverse_direction
    /\ {CostOf(1, d) : d \in ToIds} = {Fin(5), Fin(10), Fin(15)}
    /\ ret.cells[1] = Fin(10)
    /\ ret.cells[2] = Fin(13)

\* C9: has_opportunity returns, per origin, 1 if some destination of its
\* row has a cost <= threshold and 0 otherwise; reversed, per destination, 1
\* if some origin of its column has a cost <= threshold and 0 otherwise,
\* keyed by the destination ids.
C9_HasOpportunityIsAnyWithin ==
    Returned("has_opportunity") =>
        /\ ret.kind = "series"
        /\ Range(ret.index) = DualKeys
        /\ DOMAIN ret.cells = DualKeys
        /\ \A key \in DualKeys :
            /\ ret.cells[key] \in {Zero, One}
            /\ ret.cells[key] = One <=>
                \E x \in DualOthers :
                    IF call.reverse_direction
                    THEN CostWithin(x, key, call.param)
                    ELSE CostWithin(key, x, call.param)

\* The tests' table reversed with threshold 5: destination 20 is within
\* reach of origin 1, destinations 21 and 22 of no origin.
C9_Witness ==
    /\ Returned("has_opportunity")
    /\ df = ReferenceTable
    /\ call.reverse_direction /\ call.param = 5
    /\ DOMAIN ret.cells = {20, 21, 22}
    /\ ret.cells[20] = One /\ ret.cells[21] = Zero /\ ret.cells[22] = Zero

\* C10: has_opportunity(cost, t) is 1 for an origin exactly when
\* calc_access_to_opportunities(cost, within_threshold, threshold=t), with
\* no weights and no normalization, is greater than 0 for that origin.
C10_DualPrimalConsistency ==
    (Returned("has_opportunity") /\ ~call.reverse_direction) =>
        LET primal == calc_access_to_opportunities(df, "within_threshold",
                          call.param, NoWeights, NoWeights, "none")
        IN /\ primal.status = "ok"
           /\ DOMAIN primal.ret.cells = DOMAIN ret.cells
           /\ \A o \in DOMAIN ret.cells :
                ret.cells[o] = One <=> Lt(Zero, primal.ret.cells[o])

\* One origin has a destination within the threshold and one beyond it, the
\* other origin has none within it.
C10_Witness ==
    /\ Returned("has_opportunity") /\ ~call.reverse_direction
    /\ FromIds = {1, 2}
    /\ ret.cells[1] = One /\ ret.cells[2] = Zero
    /\ \E d \in ToIds : IsFinite(CostOf(1, d)) /\ ~CostWithin(1, d, call.param)
    /\ \E d \in ToIds : IsFinite(CostOf(2, d))

\* The last call ended by raising: it returned nothing.
Raised == status \notin {"init", "ok"} /\ ret = NoRet

\* C11: a call of within_threshold or has_opportunity with a threshold <= 0
\* ends with an error and returns no table or series (any exception is
\* taken for the rejection here).
C11_NonPositiveThresholdRejected ==
    (call.op \in {"within_threshold", "has_opportunity"} /\ call.param <= 0)
        => Raised

\* C12: a call of nth_closest_opportunity with an n that is not an int, or
\* is an int below 2, raises and returns no series, and the error is the one
\* of the test of n whatever the cost table is (AttributeError for an n that
\* is no int, ValueError for an int below 2), also for a table that cannot
\* be processed: n is tested before the table is read.
C12_InvalidNRejectedFirst ==
    (/\ call.op = "nth_closest_opportunity"
     /\ (call.n_type # "int" \/ call.n < 2)) =>
        /\ Raised
        /\ status = IF call.n_type # "int" THEN "AttributeError"
                    ELSE "ValueError"

\* n = 1 on a table of one row, which process_cost_matrix cannot unstack
\* (AttributeError): the call ended with the ValueError of the test of n.
C12_Witness ==
    /\ call.op = "nth_closest_opportunity"
    /\ call.n = 1 /\ call.n_type = "int"
    /\ Cardinality(df) = 1
    /\ process_cost_matrix(df, NaN).status = "AttributeError"
    /\ status = "ValueError" /\ ret = NoRet

\* The last call gave negative_exp a beta >= 0 or gaussian a sigma <= 0.
InvalidDecayParameter ==
    \/ call.impedance_function = "negative_exp" /\ call.param >= 0
    \/ call.impedance_function = "gaussian" /\ call.param <= 0

\* C13: a call of negative_exp with beta >= 0 or of gaussian with
\* sigma <= 0, direct or through calc_access_to_opportunities, raises and
\* returns nothing; on a cost table that can be processed the error is the
\* ValueError of the parameter test.
C13_InvalidDecayParameterRejected ==
    (/\ call.op \in {"negative_exp", "gaussian",
                     "calc_access_to_opportunities"}
     /\ InvalidDecayParameter) =>
        /\ Raised
        /\ process_cost_matrix(df, NaN).status = "ok" => status = "ValueError"

\* gaussian with sigma = 0 was reached through
\* calc_access_to_opportunities with a valid normalize on a table that can
\* be processed, and the call raised ValueError.
C13_Witness ==
    /\ call.op = "calc_access_to_opportunities"
    /\ call.impedance_function = "gaussian" /\ call.param = 0
    /\ call.normalize = "none"
    /\ process_cost_matrix(df, NaN).status = "ok"
    /\ status = "ValueError" /\ ret = NoRet

\* C14: a call of calc_access_to_opportunities with a normalize outside
\* "none", "median", "average", "maximum" raises ValueError, returns
\* nothing and has re-indexed no weight vector, whatever the table, the
\* weights and the impedance parameter are: the error is that of the test
\* of normalize also where the impedance function would have raised.
C14_InvalidNormalizeRejectedFirst ==
    (/\ call.op = "calc_access_to_opportunities"
     /\ call.normalize \notin {"none", "median", "average", "maximum"}) =>
        /\ Raised
        /\ status = "ValueError"
        /\ reindexed = {}

\* normalize="max" with origin weights whose keys do not match, on a table
\* of one row on which the impedance function raises AttributeError: the
\* call ended with ValueError.
C14_Witness ==
    /\ call.op = "calc_access_to_opportunities"
    /\ call.normalize = "max"
    /\ call.origin_weights.some
    /\ KeysOf(call.origin_weights) # FromIds
    /\ calc_impedance_matrix(df, call.impedance_function,
                             call.param).status = "AttributeError"
    /\ status = "ValueError" /\ ret = NoRet /\ reindexed = {}

\* m is the median of the values of raw that are numbers: the middle one in
\* ascending order, the mean of the two middle ones when their number is
\* even, NaN when there is none.
IsMedianOf(m, raw) ==
    LET numbers == {o \in DOMAIN raw : ~IsNaN(raw[o])}
        k == Cardinality(numbers)
    IN IF k = 0 THEN IsNaN(m)
       ELSE \E L \in SUBSET numbers :
            /\ Cardinality(L) = k \div 2
            /\ \A a \in L, b \in numbers \ L : Leq(raw[a], raw[b])
            /\ \E b \in numbers \ L :
                /\ \A b2 \in numbers \ L : Leq(raw[b], raw[b2])
                /\ IF k % 2 = 1 THEN m = raw[b]
                   ELSE \E a \in L :
                        /\ \A a2 \in L : Leq(raw[a2], raw[a])
                        /\ m = Div(Add(raw[a], raw[b]), Fin(2))

\* m is the mean of the values of raw that are numbers, NaN when there is
\* none.
IsMeanOf(m, raw) ==
    LET numbers == {o \in DOMAIN raw : ~IsNaN(raw[o])}
    IN IF numbers = {} THEN IsNaN(m)
       ELSE m = Div(SumOver(numbers, raw), Fin(Cardinality(numbers)))

\* C15: with no origin_weights, normalize="median" returns every origin's
\* unnormalized accessibility divided by the median of the origins'
\* unnormalized accessibilities, normalize="average" divided by their
\* mean (median and mean of the values that are numbers, as pandas takes
\* them), and normalize="none" the unnormalized values themselves.
C15_MedianAverageNone ==
    (ReturnedAccess /\ call.normalize \in {"median", "average", "none"}) =>
        LET raw == AccessWith("none").cells
        IN /\ ret.kind = "series"
           /\ DOMAIN ret.cells = FromIds
           /\ DOMAIN raw = FromIds
           /\ call.normalize = "none" => ret.cells = raw
           /\ call.normalize = "median" =>
                \E o1, o2 \in FromIds :
                    LET m == IF IsNaN(raw[o1]) \/ IsNaN(raw[o2]) THEN NaN
                             ELSE Div(Add(raw[o1], raw[o2]), Fin(2))
                    IN /\ IsMedianOf(m, raw)
                       /\ \A o \in FromIds : ret.cells[o] = Div(raw[o], m)
           /\ call.normalize = "average" =>
                LET m == IF \A o \in FromIds : IsNaN(raw[o]) THEN NaN
                         ELSE Div(SumOver({o \in FromIds : ~IsNaN(raw[o])},
                                          raw),
                                  Fin(Cardinality(
                                      {o \in FromIds : ~IsNaN(raw[o])})))
                IN /\ IsMeanOf(m, raw)
                   /\ \A o \in FromIds : ret.cells[o] = Div(raw[o], m)

\* Three origins whose unnormalized accessibilities have a median above
\* their mean, normalized by the median: the two upper origins got 1, the
\* third less than the mean would have given it.
C15_Witness ==
    /\ ReturnedAccess /\ call.normalize = "median"
    /\ df = SkewedTable
    /\ LET raw == AccessWith("none").cells
       IN /\ IsMedianOf(raw[1], raw)
          /\ ~IsMeanOf(raw[1], raw)
          /\ Lt(raw[3], raw[1])
          /\ ret.cells[1] = One /\ ret.cells[2] = One
          /\ ret.cells[3] = Div(raw[3], raw[1])
          /\ Lt(Zero, ret.cells[3]) /\ Lt(ret.cells[3], One)

\* A weight vector that is 1.0 on every destination id of the table.
UnitWeights ==
    Weights(SortedIds(ToIds), [i \in 1..Cardinality(ToIds) |-> One])

\* C16: a call of calc_access_to_opportunities without destination_weights
\* returns the per-origin values that the same call returns with a
\* destination_weights vector that is 1.0 on every destination id.
C16_NoWeightsIsUnitWeights ==
    (ReturnedAccess /\ ~call.destination_weights.some) =>
        ret = calc_access_to_opportunities(df, call.impedance_function,
                  call.param, UnitWeights, NoWeights, call.normalize).ret

\* The table with origin and destination ids swapped in every row.
Transposed(rows) ==
    {Row(r.to_id, r.from_id, r.travel_time) : r \in rows}

\* The outcome of the last dual measure called on the table rows with the
\* given reverse_direction.
DualMeasure(rows, reverse_direction) ==
    CASE call.op = "has_opportunity" ->
            has_opportunity(rows, call.param, reverse_direction)
      [] call.op = "closest_opportunity" ->
            closest_opportunity(rows, reverse_direction)
      [] call.op = "nth_closest_opportunity" ->
            nth_closest_opportunity(rows,
                [type |-> call.n_type, val |-> call.n], reverse_direction)

\* C17: a call of has_opportunity, closest_opportunity or
\* nth_closest_opportunity with reverse_direction=True ends as the same
\* call with reverse_direction=False on the transposed table does: the same
\* series, keyed by the destination ids of the table, or the same error.
C17_ReverseIsTranspose ==
    (/\ call.op \in {"has_opportunity", "closest_opportunity",
                     "nth_closest_opportunity"}
     /\ call.reverse_direction) =>
        LET other == DualMeasure(Transposed(df), FALSE)
        IN /\ status = other.status
           /\ ret = other.ret
           /\ status = "ok" => DOMAIN ret.cells = ToIds

\* closest_opportunity reversed on the tests' table, which has two origins
\* and three destinations: a series keyed by the three destinations that
\* is not the one of the call that is not reversed.
C17_Witness ==
    /\ Returned("closest_opportunity") /\ call.reverse_direction
    /\ df = ReferenceTable
    /\ DOMAIN ret.cells = {20, 21, 22}
    /\ ret.cells[20] = Fin(5) /\ ret.cells[21] = Fin(10)
    /\ ret.cells[22] = Fin(8)
    /\ ret # closest_opportunity(df, FALSE).ret

\* The table gives the key of a dual measure no finite cost: every cost of
\* its row (column when reversed) is NaN, infinite or missing.
NoFiniteCost(key) == \A x \in DualOthers : ~IsFinite(DualCost(key, x))

\* C18: a call of closest_opportunity on a table in which an origin (a
\* destination when reversed) has no finite cost returns, and returns
\* 10000.0 for that key.
C18_SentinelForNoFiniteCost ==
    call.op = "closest_opportunity" =>
        \A key \in DualKeys :
            NoFiniteCost(key) =>
                /\ status = "ok"
                /\ ret.kind = "series"
                /\ ret.cells[key] = Fin(10000)

\* The outcome of the call c made on the table rows.
Outcome(c, rows) ==
    CASE c.op = "within_threshold" -> within_threshold(rows, c.param)
      [] c.op = "negative_exp" -> negative_exp(rows, c.param)
      [] c.op = "gaussian" -> gaussian(rows, c.param)
      [] c.op = "calc_access_to_opportunities" ->
            calc_access_to_opportunities(rows, c.impedance_function, c.param,
                c.destination_weights, c.origin_weights, c.normalize)
      [] c.op = "has_opportunity" ->
            has_opportunity(rows, c.param, c.reverse_direction)
      [] c.op = "closest_opportunity" ->
            closest_opportunity(rows, c.reverse_direction)
      [] c.op = "nth_closest_opportunity" ->
            nth_closest_opportunity(rows, [type |-> c.n_type, val |-> c.n],
                                    c.reverse_direction)

\* The weight vectors of the call c are not the re-indexed ones: a vector
\* that the call re-indexed still has the keys that made the call re-index
\* it.
WeightsAsGiven(c, rows, re) ==
    /\ "destination" \in re =>
            c.destination_weights.idx # SortedIds({r.to_id : r \in rows})
    /\ "origin" \in re =>
            c.origin_weights.idx # SortedIds({r.from_id : r \in rows})

HasNegativeCell(frame) ==
    /\ frame.some
    /\ \E p \in DOMAIN frame.cells :
            frame.cells[p].k = "fin" /\ frame.cells[p].n < 0

\* C20: a constructor call that is given a DataFrame, or data with origins
\* and destinations, with a cell below 0, and an assignment of such a
\* DataFrame through the matrix setter, end with an exception, which is a
\* ValueError when the values are numbers under distinct integer ids and
\* no argument conflicts; and the Matrix the caller holds never stores a
\* cell below 0.
C20_NegativeCellRejected ==
    /\ ~HasNegativeCell(matrix)
    /\ (/\ call.op \in {"Matrix", "matrix_setter"}
        /\ HasNegativeCell(call.df) \/ HasNegativeCell(call.data))
            => /\ status \in {"ValueError", "AttributeError"}
               /\ (/\ ~call.matrix.some
                   /\ {call.df, call.data} \in
                            {{NoFrame, frame} : frame \in PlainFrames})
                        => status = "ValueError"

\* Matrix(data=[[NaN, 5], [-5, 5]], origins=[1, 2], destinations=[20, 21])
\* raised ValueError while the caller held a Matrix of non-negative costs,
\* which it still holds.
C20_Witness ==
    /\ call.op = "Matrix"
    /\ ~call.matrix.some /\ ~call.df.some
    /\ call.data = Frame(<<1, 2>>, <<20, 21>>,
                         CellsOf(<<<<NaN, Fin(5)>>, <<Fin(0 - 5), Fin(5)>>>>),
                         TRUE, TRUE)
    /\ status = "ValueError"
    /\ matrix.some /\ matrix.cells[<<1, 1>>] = Fin(5)

\* The ids of the sequence are pairwise distinct.
PairwiseDistinct(ids) ==
    \A i, j \in DOMAIN ids : ids[i] = ids[j] => i = j

\* C21: the Matrix the caller holds has pairwise distinct origin ids and
\* pairwise distinct destination ids: a frame with a repeated id does not
\* pass the constructor or the matrix setter.
C21_DuplicateIdsRejected ==
    matrix.some =>
        PairwiseDistinct(matrix.index) /\ PairwiseDistinct(matrix.columns)

\* The tables a and b have the same origin ids, the same destination ids
\* and the same value for every origin and destination.
SameTable(a, b) ==
    /\ a.some /\ b.some
    /\ Len(a.index) = Len(b.index) /\ Range(a.index) = Range(b.index)
    /\ Len(a.columns) = Len(b.columns) /\ Range(a.columns) = Range(b.columns)
    /\ \A i \in DOMAIN a.index, j \in DOMAIN a.columns :
            a.cells[<<i, j>>] =
                b.cells[<<Pos(b.index, a.index[i]), Pos(b.columns, a.columns[j])>>]

\* C22: a Matrix that stores a table has been written with to_csv, tall or
\* wide: reading the file back with read_csv returns a Matrix with the
\* same origin ids, the same destination ids and the same value in every
\* cell.
C22_CsvRoundTrip ==
    (call.op = "to_csv" /\ status = "ok" /\ matrix.some) =>
        LET back == read_csv(file, DefaultFill, name)
        IN back.status = "ok" /\ SameTable(back.matrix, matrix)

\* The last call gave an impedance function a valid parameter: a
\* threshold > 0, a beta < 0, a sigma > 0.
ValidImpedanceCall ==
    \/ call.op = "within_threshold" /\ call.param > 0
    \/ call.op = "negative_exp" /\ call.param < 0
    \/ call.op = "gaussian" /\ call.param > 0

\* C23: within_threshold, negative_exp and gaussian, called with a valid
\* parameter on a cost table that gives no pair twice, return a table
\* whose origin ids and destination ids are those of the cost table, each
\* once, with one cell for every origin and destination.
C23_ShapeInvariance ==
    (ValidImpedanceCall /\ ~HasDuplicatePair(df)) =>
        /\ status = "ok" /\ ret.kind = "table"
        /\ Range(ret.index) = FromIds
        /\ Len(ret.index) = Cardinality(FromIds)
        /\ Range(ret.columns) = ToIds
        /\ Len(ret.columns) = Cardinality(ToIds)
        /\ DOMAIN ret.cells = FromIds \X ToIds

\* The thresholds the threshold of the last call is compared with: from
\* -5 to 5 above the largest cost level.
ComparedThresholds == {5 * i : i \in (0 - 1)..(MaxCostLevel + 1)}

\* Every cell of the result a is at most the same cell of the result b,
\* which has the same cells; or both calls raised the same exception.
CellwiseLeq(a, b) ==
    /\ a.status = b.status
    /\ a.ret.kind = b.ret.kind
    /\ DOMAIN a.ret.cells = DOMAIN b.ret.cells
    /\ \A p \in DOMAIN a.ret.cells : Leq(a.ret.cells[p], b.ret.cells[p])

\* C24: the result of within_threshold is at most, cell by cell, its
\* result on the same table for every larger threshold, and at least its
\* result for every smaller one; the same holds per origin (per
\* destination when reversed) for has_opportunity.
C24_ThresholdMonotone ==
    /\ call.op = "within_threshold" =>
            LET this == [status |-> status, ret |-> ret]
            IN \A t \in ComparedThresholds :
                /\ t > call.param => CellwiseLeq(this, within_threshold(df, t))
                /\ t < call.param => CellwiseLeq(within_threshold(df, t), this)
    /\ call.op = "has_opportunity" =>
            LET this == [status |-> status, ret |-> ret]
            IN \A t \in ComparedThresholds :
                /\ t > call.param =>
                    CellwiseLeq(this,
                        has_opportunity(df, t, call.reverse_direction))
                /\ t < call.param =>
                    CellwiseLeq(
                        has_opportunity(df, t, call.reverse_direction), this)

\* within_threshold returned 0 for a pair of cost 10 at threshold 5 and 1
\* for a pair of cost 5; at threshold 10 it gives 1 for both.
C24_Witness ==
    /\ Returned("within_threshold") /\ call.param = 5
    /\ \E o \in FromIds, d \in ToIds :
            /\ CostOf(o, d) = Fin(10)
            /\ ret.cells[<<o, d>>] = Zero
            /\ within_threshold(df, 10).ret.cells[<<o, d>>] = One
    /\ \E o \in FromIds, d \in ToIds :
            /\ CostOf(o, d) = Fin(5)
            /\ ret.cells[<<o, d>>] = One
            /\ within_threshold(df, 10).ret.cells[<<o, d>>] = One

-----------------------------------------------------------------------------
\* The method being executed has reached, or has ended in, the loop of
\* launch_local_otp2_server.
ServerStarted ==
    /\ method \in {"launch_local_otp2_server", "build_network_from_dir"}
    /\ \/ pc \in {"probe", "sleep"}
       \/ pc = "done" /\ result.status \in {"returned", "RuntimeError"}
                      /\ (method = "build_network_from_dir"
                              => locals.launch_server)

\* C25: launch_local_otp2_server probes the server after it has started it
\* and returns once a probe succeeds; when no probe succeeds it raises
\* RuntimeError, and from the start of the server process to the raise it
\* has slept for at most max_server_sleep_time seconds in all.
C25_LaunchWaitsAtMostMaxSleepTime ==
    /\ ServerStarted => "server" \in processes
    /\ (ServerStarted /\ pc = "done" /\ result.status = "returned")
           => Url(_request_host_url, "") \in sent
    /\ (ServerStarted /\ pc = "done" /\ result.status = "RuntimeError")
           => locals.slept <= _max_server_sleep_time

-----------------------------------------------------------------------------
\* The departures departure + k * time_increment, k = 0, 1, 2, ..., that
\* lie in [departure, departure + departure_time_window), in minutes after
\* `departure`.
DeparturesInWindow ==
    {k * locals.time_increment : k \in 0..MaxSamples}
        \cap {d \in 0..(MaxSamples * MaxIncrement) :
                  d < locals.departure_time_window}

\* C26: compute_interval_transit_traveltime requests trips for exactly the
\* departures departure + k * time_increment that lie in [departure,
\* departure + departure_time_window): none at or after the end of the
\* interval, the start of the interval always, and when it returns it
\* has requested each of them once, in order, and returns the median of
\* their trip times.
C26_SamplesHalfOpenInterval ==
    method = "compute_interval_transit_traveltime" =>
        /\ \A i \in DOMAIN locals.departures :
               locals.departures[i] \in DeparturesInWindow
        /\ (pc = "done" /\ result.status = "returned") =>
               /\ Range(locals.departures) = DeparturesInWindow
               /\ 0 \in Range(locals.departures)
               /\ \A i \in DOMAIN locals.departures :
                      locals.departures[i] = (i - 1) * locals.time_increment
               /\ result.value = np_median(locals.travel_times)

-----------------------------------------------------------------------------
\* C27: once request_host_url has been set to a URL, every request the
\* object sends (the probe of the server, the walk and transit trip
\* queries, the query of the service time range) goes to that host.
C27_RequestsGoToRequestHostUrl ==
    \A request \in sent : request.host = _request_host_url

-----------------------------------------------------------------------------
\* C28: for a valid parameter (beta < 0, sigma > 0), every cell that
\* negative_exp and gaussian produce from a cost >= 0 is above 0 and at
\* most 1, and it is 1 exactly when the cost is 0.
C28_DecayInUnitInterval ==
    (/\ \/ Returned("negative_exp") /\ call.param < 0
        \/ Returned("gaussian") /\ call.param > 0
     /\ ret.kind = "table") =>
        \A p \in DOMAIN ret.cells :
            LET cost == CostOf(p[1], p[2])
            IN Leq(Zero, cost) =>
                   /\ Lt(Zero, ret.cells[p])
                   /\ Leq(ret.cells[p], One)
                   /\ ret.cells[p] = One <=> cost = Zero

-----------------------------------------------------------------------------
\* C29: a call of build_network_from_dir that fails because java_path or
\* otp_jar_path has not been set leaves the network directory as it was,
\* with overwrite=True and with overwrite=False: a graph.obj that existed
\* still exists, and no build or server process has been started.
C29_FailedBuildLeavesDirectory ==
    [][(/\ pc = "idle"
        /\ method' = "build_network_from_dir"
        /\ result'.status = "FileNotFoundError")
           => /\ graph_obj' = graph_obj
              /\ processes' = processes]_vars

-----------------------------------------------------------------------------
\* The table is one that a Matrix may store: integer origin and destination
\* ids and every cell a number >= 0.
ValidTable(frame) ==
    /\ frame.index_int /\ frame.columns_int
    /\ \A p \in DOMAIN frame.cells :
            frame.cells[p].k # "str" /\ Leq(Zero, frame.cells[p])

\* The Matrix objects the Matrix held is compared with.
ComparedMatrices ==
    {MatrixObject(frame, nm) : frame \in PlainFrames \cup {NoFrame, matrix},
                               nm \in Names}

\* After every constructor call, assignment through
\* the matrix setter and assignment of a name, a Matrix that is not empty
\* stores a table with integer ids and all cells >= 0.
StoredTableValid == matrix.some => ValidTable(matrix)

\* An assignment through the matrix setter that
\* fails validation raises and leaves the stored table and the name as
\* they were.
FailedSetterKeeps ==
    (status = "init" /\ call'.op = "matrix_setter"
        /\ _test_matrix(call'.df) # "ok")
            => /\ status' \in {"ValueError", "AttributeError"}
               /\ matrix' = matrix /\ name' = name

\* Assigning a name changes neither the table nor what
\* the comparison with another Matrix gives.
NameKeepsTable ==
    (status = "init" /\ call'.op = "name_setter")
        => /\ matrix' = matrix
           /\ \A other \in ComparedMatrices :
                 Matrix__eq__(MatrixObject(matrix', name'), other)
                     = Matrix__eq__(MatrixObject(matrix, name), other)

\* C30: Matrix keeps its validity invariant across every sequence of
\* constructor calls, assignments through the matrix setter and assignments
\* of a name: a Matrix that is not empty stores a table with integer origin
\* and destination ids and all cells >= 0, a failed assignment through the
\* matrix setter raises and leaves table and name unchanged, and assigning
\* a name changes neither the table nor the outcome of a comparison.
C30_MatrixStaysValid ==
    /\ []StoredTableValid
    /\ [][FailedSetterKeeps]_vars
    /\ [][NameKeepsTable]_vars
====
